---- MODULE Spec2Model ----
(***************************************************************************)
(* A model of go-farm-bot: the session protocol engine                     *)
(* (internal/network/network.go), the land-state analyzers and the         *)
(* self-farm / friend-farm orchestrators (package game).                   *)
(*                                                                         *)
(* The module holds several specifications over disjoint groups of         *)
(* variables; each specification moves its own group and leaves the        *)
(* others at their initial values:                                         *)
(*   SpecPhase    getCurrentPhase on bounded phase lists                    *)
(*   SpecAnalyze  AnalyzeLands / AnalyzeFriendLands on bounded snapshots    *)
(*   SpecQuota    the friend orchestrator's daily quota bookkeeping         *)
(*   SpecGuard    the in-progress flags of CheckFarm and CheckAllFriends    *)
(*   SpecNet      the network session: correlation, watchdog, Cleanup       *)
(*   SpecNetLive  SpecNet under fair scheduling                             *)
(*   SpecCycle    one self-farm cycle of CheckFarm after the analysis       *)
(*   SpecEvents   login, the event emitter and its handlers, shutdown       *)
(*   SpecVisit    friend visits: the steal and help loops on the quota      *)
(*   SpecPlant    harvest and planting of one self-farm cycle               *)
(*   SpecEventsLive  SpecEvents under fair scheduling                       *)
(***************************************************************************)
EXTENDS Integers, Sequences, FiniteSets, TLC

(***************************************************************************)
(* Bounds of the model.                                                    *)
(***************************************************************************)
\* longest phase list given to getCurrentPhase
MaxPhases == 3
\* Notify frames the receive loop reads in the events model
MaxFrames == 2
\* most gold of the player, and highest price of a seed
MaxGold == 2
\* most plots in one analysed snapshot
MaxLands == 2
\* largest value of a daily counter reported by the server
MaxCount == 1
\* number of date changes the quota model follows
MaxDay == 1
\* friends in the list of a cycle
MaxFriends == 2
\* landsChanged handler goroutines alive at the same time
MaxHandlers == 1
\* sequence numbers handed out in a session
MaxSeq == 2

(***************************************************************************)
(* Program constants.                                                      *)
(***************************************************************************)
\* config.PlantPhase values (internal/config/config.go)
PlantPhaseSeed == 1
PlantPhaseBlooming == 5
PlantPhaseMature == 6
PlantPhaseDead == 7

\* operation kinds (friend orchestrator)
OpWaterLand == 10007
OpSteal == 10008

\* misses at which the heartbeat watchdog force-resolves
MissLimit == 2

\* ToTimeSec treats a value above 1e12 as milliseconds.  Timestamps of the
\* model are counted in units of 10^9 (TLC integers are 32 bits wide), so
\* the threshold 1e12 is 1000 units; dividing by 1000 is unchanged.
MsThreshold == 1000

VARIABLES
    \* ---- SpecPhase: the input and the result of getCurrentPhase
    phList,        \* phases []*PlantPhaseInfo
    phNow,         \* nowSec
    phResult,      \* index of the returned phase, 0 for nil
    phFriendResult,\* the same for FriendManager.getCurrentPhase
    phPc,          \* "input" | "done"
    \* ---- SpecAnalyze: the input and the results of the analyzers
    aLands,        \* lands []*LandInfo
    aNow,          \* utils.GetServerTimeSec()
    aStatus,       \* *LandStatus of AnalyzeLands
    aFriendStatus, \* *FriendLandStatus of AnalyzeFriendLands
    aPc,           \* "input" | "done"
    \* ---- SpecQuota: FriendManager's quota fields and the local date
    qToday,          \* the local calendar date, getLocalDateKey()
    lastResetDate,   \* fm.lastResetDate
    operationLimits, \* fm.operationLimits: opId -> limit record
    expTracker,      \* fm.expTracker: opId -> dayExpTimes before helping
    expExhausted,    \* fm.expExhausted: opId -> bool
    qLast,           \* the operation that ran last
    qBefore,         \* entries the maps held when the last reset began
    \* ---- SpecGuard: the reentrancy guards and the goroutines that
    \* call CheckFarm and CheckAllFriends
    isChecking,        \* FarmManager.isChecking
    loopRunning,       \* FarmManager.loopRunning
    farmSubscribed,    \* the landsChanged handler is registered
    gPc,               \* position of each goroutine that runs CheckFarm
    isCheckingFriends, \* FriendManager.isCheckingFriends
    friendLoopRunning, \* FriendManager.friendLoopRunning
    fPc,               \* position of each goroutine that runs CheckAllFriends
    \* ---- SpecNet: the network session
    connected,         \* nm.connected
    wsOpen,            \* nm.ws is set and the socket is not closed
    gid,               \* nm.userState.GID as the login has set it
    clientSeq,         \* nm.clientSeq
    seqLog,            \* the sequence numbers in the order handed out
    pendingCallbacks,  \* keys of nm.pendingCallbacks
    chanBuf,           \* buffer of the callback channel of each number
    chanClosed,        \* callback channels that are closed
    delivered,         \* sends and closes done on each callback channel
    mu,                \* holder of nm.mu over a multi-step section
    muCur,             \* entry the holder's loop is at, 0 between entries
    cPc,               \* position of each goroutine that sends requests
    cSeq,              \* sequence number of its request in progress
    missCount,         \* heartbeatMissCount
    cRet,              \* what its SendProtoMessage call just returned
    stale,             \* time.Since(lastResponseTime) > 60 s
    rPc,               \* position of the receive loop
    rCb,               \* entry taken by handleMessage, to deliver to
    rResp,             \* the result it will deliver
    rLast,             \* what handleMessage just did with a frame
    mPc,               \* position of main
    emits,             \* times "disconnected" was emitted
    crashed,           \* a goroutine panicked
    \* ---- SpecCycle: the self-farm cycle
    yPc,               \* position of CheckFarm
    work,              \* which lists of the analysis are non-empty
    carePc,            \* position of each care goroutine
    careOk,            \* outcome of each care call
    careLocal,         \* the slice a care goroutine read for its append
    actions,           \* the local slice actions of CheckFarm
    harvested,         \* harvestedLandIds is non-empty
    reported,          \* the action list written to the log
    \* ---- SpecEvents: login, event handlers and shutdown
    handlers,          \* EventEmitter.handlers, the handler names of each event
    eConnected,        \* nm.connected (and nm.ws set) in this session
    eMu,               \* holder of nm.mu while Cleanup runs
    loginPc,           \* position of the sendLogin goroutine
    loginPending,      \* the Login request is in nm.pendingCallbacks
    loginChan,         \* the callback channel of the Login request
    loopPc,            \* position of the receive loop
    emitKind,          \* the event an Emit in progress publishes
    emitList,          \* its copy of the handler list
    emitIdx,           \* index of the next handler it starts, 0 before the copy
    running,           \* handler goroutines started and not returned
    sigChan,           \* signals buffered in sigChan of main
    mainPc,            \* position of main
    frames,            \* Notify frames read
    ePanic,            \* a goroutine panicked
    \* ---- SpecVisit: friend visits
    vPc,               \* position of performFriendOperations
    vSteal,            \* len(status.StealInfo) of the visit
    vWater,            \* len(status.NeedWater) of the visit
    vI,                \* index of the loop in progress
    vStolen,           \* plots a steal request was issued for in this visit
    vHelped,           \* a help call succeeded since expTracker was written
    \* ---- SpecPlant: harvest and planting of one cycle
    pPc,               \* position in CheckFarm / AutoPlantEmptyLands
    pKinds,            \* the kind of each plot of the analysed snapshot
    pGold,             \* state.Gold
    pLog,              \* the requests sent in order, each with its outcome
    harvestedLandIds,  \* harvestedLandIds of CheckFarm
    landsToPlant,      \* landsToPlant of AutoPlantEmptyLands
    bestSeed,          \* the seed FindBestSeed returned
    actualSeedId,      \* the seed id of the BuyGoods reply, else bestSeed's
    planted,           \* successCount of PlantSeeds
    pI,                \* index of the loop in progress
    pSeedOf,           \* the seed planted on each plot
    pFailed,           \* a call of this cycle returned an error
    pShort,            \* the gold did not pay for every plot
    \* ---- SpecTour: a cycle of friend visits
    tPc,               \* position of CheckAllFriends
    tCount,            \* len(friends) of the cycle
    tFriend,           \* index of the friend in the loop
    tLog,              \* the requests since the latest Enter, in order
    tEnterOk,          \* the latest Enter succeeded
    tOld,              \* kinds whose limits record is of an earlier date
    \* ---- SpecUser: UserState, the login and the notifications
    userState,         \* nm.userState: GID, Level, Gold, Exp
    uMu,               \* holder of UserState.mu
    uLoginPc,          \* position of sendLogin
    uResp,             \* the Login response, from its delivery on
    uLoopPc,           \* position of the receive loop
    uBasic,            \* notify.Basic of the frame being handled
    uOld,              \* oldLevel and oldGold of handleBasicNotify
    uFrames,           \* BasicNotify frames read
    uNewest,           \* latest positive values notified after the login
    uAcc               \* the latest access to a field of UserState

phaseVars == <<phList, phNow, phResult, phFriendResult, phPc>>
analyzeVars == <<aLands, aNow, aStatus, aFriendStatus, aPc>>
quotaVars == <<qToday, lastResetDate, operationLimits, expTracker,
               expExhausted, qLast, qBefore>>
guardVars == <<isChecking, loopRunning, farmSubscribed, gPc,
               isCheckingFriends, friendLoopRunning, fPc>>
netVars == <<connected, wsOpen, gid, clientSeq, seqLog, pendingCallbacks,
             chanBuf,
             chanClosed, delivered, mu, muCur, cPc, cSeq, missCount, cRet,
             stale, rPc,
             rCb, rResp, rLast, mPc, emits, crashed>>
cycleVars == <<yPc, work, carePc, careOk, careLocal, actions, harvested,
               reported>>
eventsVars == <<handlers, eConnected, eMu, loginPc, loginPending,
                loginChan, loopPc, emitKind, emitList, emitIdx, running,
                sigChan, mainPc, frames, ePanic>>
visitVars == <<vPc, vSteal, vWater, vI, vStolen, vHelped>>
plantVars == <<pPc, pKinds, pGold, pLog, harvestedLandIds, landsToPlant,
               bestSeed, actualSeedId, planted, pI, pSeedOf, pFailed,
               pShort>>
tourVars == <<tPc, tCount, tFriend, tLog, tEnterOk, tOld>>
userVars == <<userState, uMu, uLoginPc, uResp, uLoopPc, uBasic, uOld,
              uFrames, uNewest, uAcc>>

(***************************************************************************)
(* utils.ToTimeSec                                                         *)
(***************************************************************************)
ToTimeSec(n) ==
    IF n <= 0 THEN 0
    ELSE IF n > MsThreshold THEN n \div 1000
    ELSE n

(***************************************************************************)
(* getCurrentPhase: scan from the last phase backward, return the first    *)
(* one met whose begin time is positive and not after nowSec; the first    *)
(* phase when none is; nil (0) for an empty list.  The result is the index *)
(* of the returned phase.                                                  *)
(***************************************************************************)
RECURSIVE ScanBack(_, _, _)
ScanBack(phases, i, nowSec) ==
    IF i < 1 THEN 1
    ELSE LET beginTime == ToTimeSec(phases[i].BeginTime)
         IN  IF beginTime > 0 /\ beginTime <= nowSec
             THEN i
             ELSE ScanBack(phases, i - 1, nowSec)

\* a scan that starts at the first phase: returns the earliest begun phase
getCurrentPhase_Forward(phases, nowSec) ==
    IF Len(phases) = 0 THEN 0
    ELSE IF \E i \in 1..Len(phases) :
               ToTimeSec(phases[i].BeginTime) > 0
               /\ ToTimeSec(phases[i].BeginTime) <= nowSec
         THEN CHOOSE i \in 1..Len(phases) :
               /\ ToTimeSec(phases[i].BeginTime) > 0
               /\ ToTimeSec(phases[i].BeginTime) <= nowSec
               /\ \A j \in 1..(i - 1) :
                     ~(ToTimeSec(phases[j].BeginTime) > 0
                       /\ ToTimeSec(phases[j].BeginTime) <= nowSec)
         ELSE 1

getCurrentPhase(phases, nowSec) ==
    IF Len(phases) = 0 THEN 0 ELSE ScanBack(phases, Len(phases), nowSec)

RECURSIVE FriendScanBack(_, _, _)
FriendScanBack(phases, i, nowSec) ==
    IF i < 1 THEN 1
    ELSE LET beginTime == ToTimeSec(phases[i].BeginTime)
         IN  IF beginTime > 0 /\ beginTime <= nowSec
             THEN i
             ELSE FriendScanBack(phases, i - 1, nowSec)

FriendGetCurrentPhase(phases, nowSec) ==
    IF Len(phases) = 0 THEN 0 ELSE FriendScanBack(phases, Len(phases), nowSec)

(***************************************************************************)
(* Inputs of SpecPhase.                                                    *)
(***************************************************************************)
\* begin times: unset, three second-valued times, one millisecond-valued
BeginVals == {0, 100, 200, 300, 200000}
PhaseNowVals == {50, 150, 250, 350}

MkPhase(ord, begin, dry, weeds, insect) ==
    [Phase |-> ord, BeginTime |-> begin, DryTime |-> dry,
     WeedsTime |-> weeds, InsectTime |-> insect]

BeginPhases == {MkPhase(PlantPhaseSeed, b, 0, 0, 0) : b \in BeginVals}

SeqsUpTo(S, n) == UNION {[1..k -> S] : k \in 0..n}

PhaseInit ==
    /\ phList \in SeqsUpTo(BeginPhases, MaxPhases)
    /\ phNow \in PhaseNowVals
    /\ phResult = 0
    /\ phFriendResult = 0
    /\ phPc = "input"

RunGetCurrentPhase ==
    /\ phPc = "input"
    /\ phResult' = getCurrentPhase(phList, phNow)
    /\ phFriendResult' = FriendGetCurrentPhase(phList, phNow)
    /\ phPc' = "done"
    /\ UNCHANGED <<phList, phNow>>

(***************************************************************************)
(* The analyzers.  A plot is [Id, Unlocked, HasPlant, Phases, DryNum,      *)
(* WeedOwners, InsectOwners, Stealable, LeftFruitNum]; WeedOwners and      *)
(* InsectOwners are the lengths of the owner lists.  Repeated message      *)
(* fields never decode to nil elements, so a snapshot holds no nil plot.   *)
(***************************************************************************)
containsInt64(slice, val) == \E k \in 1..Len(slice) : slice[k] = val

EmptyLandStatus ==
    [Harvestable |-> <<>>, NeedWater |-> <<>>, NeedWeed |-> <<>>,
     NeedBug |-> <<>>, Growing |-> <<>>, Empty |-> <<>>, Dead |-> <<>>]

\* the two ifs of one need kind: the counter, then the threshold time
\* guarded by containsInt64
FlagNeed_NoDedup(list, landID, count, thresholdTime, nowSec) ==
    LET l1 == IF count > 0 THEN Append(list, landID) ELSE list
        t  == ToTimeSec(thresholdTime)
    IN  IF t > 0 /\ t <= nowSec THEN Append(l1, landID) ELSE l1

FlagNeed(list, landID, count, thresholdTime, nowSec) ==
    LET l1 == IF count > 0 THEN Append(list, landID) ELSE list
        t  == ToTimeSec(thresholdTime)
    IN  IF t > 0 /\ t <= nowSec /\ ~containsInt64(l1, landID)
        THEN Append(l1, landID)
        ELSE l1

\* the body of AnalyzeLands' loop with the mature case falling through to
\* the growing case
AnalyzeLand_Fallthrough(result, land, nowSec) ==
    IF ~land.Unlocked THEN result
    ELSE IF ~land.HasPlant \/ Len(land.Phases) = 0
    THEN [result EXCEPT !.Empty = Append(@, land.Id)]
    ELSE
      LET cur == getCurrentPhase(land.Phases, nowSec) IN
      IF cur = 0 THEN [result EXCEPT !.Empty = Append(@, land.Id)]
      ELSE
        LET currentPhase == land.Phases[cur] IN
        IF currentPhase.Phase = PlantPhaseDead
        THEN [result EXCEPT !.Dead = Append(@, land.Id)]
        ELSE IF currentPhase.Phase = PlantPhaseMature
        THEN [result EXCEPT !.Harvestable = Append(@, land.Id),
                            !.Growing = Append(@, land.Id)]
        ELSE [result EXCEPT
                !.NeedWater = FlagNeed(@, land.Id, land.DryNum,
                                       currentPhase.DryTime, nowSec),
                !.NeedWeed = FlagNeed(@, land.Id, land.WeedOwners,
                                      currentPhase.WeedsTime, nowSec),
                !.NeedBug = FlagNeed(@, land.Id, land.InsectOwners,
                                     currentPhase.InsectTime, nowSec),
                !.Growing = Append(@, land.Id)]

\* the body of AnalyzeLands' loop, for one plot
AnalyzeLand(result, land, nowSec) ==
    IF ~land.Unlocked THEN result
    ELSE IF ~land.HasPlant \/ Len(land.Phases) = 0
    THEN [result EXCEPT !.Empty = Append(@, land.Id)]
    ELSE
      LET cur == getCurrentPhase(land.Phases, nowSec) IN
      IF cur = 0 THEN [result EXCEPT !.Empty = Append(@, land.Id)]
      ELSE
        LET currentPhase == land.Phases[cur] IN
        IF currentPhase.Phase = PlantPhaseDead
        THEN [result EXCEPT !.Dead = Append(@, land.Id)]
        ELSE IF currentPhase.Phase = PlantPhaseMature
        THEN [result EXCEPT !.Harvestable = Append(@, land.Id)]
        ELSE [result EXCEPT
                !.NeedWater = FlagNeed(@, land.Id, land.DryNum,
                                       currentPhase.DryTime, nowSec),
                !.NeedWeed = FlagNeed(@, land.Id, land.WeedOwners,
                                      currentPhase.WeedsTime, nowSec),
                !.NeedBug = FlagNeed(@, land.Id, land.InsectOwners,
                                     currentPhase.InsectTime, nowSec),
                !.Growing = Append(@, land.Id)]

RECURSIVE AnalyzeFrom(_, _, _, _)
AnalyzeFrom(lands, i, nowSec, result) ==
    IF i > Len(lands) THEN result
    ELSE AnalyzeFrom(lands, i + 1, nowSec, AnalyzeLand(result, lands[i], nowSec))

AnalyzeLands(lands, nowSec) == AnalyzeFrom(lands, 1, nowSec, EmptyLandStatus)

\* FriendManager.AnalyzeFriendLands; EnablePutBadThings is false, so
\* CanPutWeeds and CanPutInsects stay empty
EmptyFriendLandStatus ==
    [CanSteal |-> <<>>, NeedWater |-> <<>>, NeedWeed |-> <<>>,
     NeedBug |-> <<>>, CanPutWeeds |-> <<>>, CanPutInsects |-> <<>>]

FriendFlagNeed(list, landID, count, thresholdTime, nowSec) ==
    LET l1 == IF count > 0 THEN Append(list, landID) ELSE list
        t  == ToTimeSec(thresholdTime)
    IN  IF t > 0 /\ t <= nowSec /\ ~containsInt64(l1, landID)
        THEN Append(l1, landID)
        ELSE l1

AnalyzeFriendLand(result, land, nowSec) ==
    IF ~land.Unlocked THEN result
    ELSE IF ~land.HasPlant THEN result
    ELSE
      LET cur == FriendGetCurrentPhase(land.Phases, nowSec) IN
      IF cur = 0 THEN result
      ELSE
        LET currentPhase == land.Phases[cur]
            r1 == IF /\ currentPhase.Phase = PlantPhaseMature
                     /\ land.Stealable
                     /\ land.LeftFruitNum > 0
                  THEN [result EXCEPT !.CanSteal = Append(@, land.Id)]
                  ELSE result
        IN [r1 EXCEPT
              !.NeedWater = FriendFlagNeed(@, land.Id, land.DryNum,
                                           currentPhase.DryTime, nowSec),
              !.NeedWeed = FriendFlagNeed(@, land.Id, land.WeedOwners,
                                          currentPhase.WeedsTime, nowSec),
              !.NeedBug = FriendFlagNeed(@, land.Id, land.InsectOwners,
                                         currentPhase.InsectTime, nowSec)]

RECURSIVE AnalyzeFriendFrom(_, _, _, _)
AnalyzeFriendFrom(lands, i, nowSec, result) ==
    IF i > Len(lands) THEN result
    ELSE AnalyzeFriendFrom(lands, i + 1, nowSec,
                           AnalyzeFriendLand(result, lands[i], nowSec))

AnalyzeFriendLands(lands, nowSec) ==
    AnalyzeFriendFrom(lands, 1, nowSec, EmptyFriendLandStatus)

(***************************************************************************)
(* Inputs of SpecAnalyze.  A plot shape is a plot without its Id; a        *)
(* snapshot gives the plot at position i the Id i (server plot ids are     *)
(* distinct).  Threshold times: 0 (unset), 200 (reached at now = 250, not  *)
(* at now = 150) and 200000 (the same instant in milliseconds).            *)
(***************************************************************************)
AnalyzeNowVals == {150, 250}

MkShape(unlocked, hasPlant, phases, dry, weed, insect, steal, fruit) ==
    [Unlocked |-> unlocked, HasPlant |-> hasPlant, Phases |-> phases,
     DryNum |-> dry, WeedOwners |-> weed, InsectOwners |-> insect,
     Stealable |-> steal, LeftFruitNum |-> fruit]

\* (count, threshold) pairs of one need kind
NeedPairs == {<<1, 0>>, <<0, 200>>, <<1, 200>>, <<0, 200000>>}

\* plots with one phase of ordinal ord: no need, each need kind alone in
\* each of its forms, and every need at once
OnePhaseShapes(ord) ==
    {MkShape(TRUE, TRUE, <<MkPhase(ord, 100, 0, 0, 0)>>, 0, 0, 0, FALSE, 0)}
    \cup {MkShape(TRUE, TRUE, <<MkPhase(ord, 100, p[2], 0, 0)>>,
                   p[1], 0, 0, FALSE, 0) : p \in NeedPairs}
    \cup {MkShape(TRUE, TRUE, <<MkPhase(ord, 100, 0, p[2], 0)>>,
                   0, p[1], 0, FALSE, 0) : p \in NeedPairs}
    \cup {MkShape(TRUE, TRUE, <<MkPhase(ord, 100, 0, 0, p[2])>>,
                   0, 0, p[1], FALSE, 0) : p \in NeedPairs}
    \cup {MkShape(TRUE, TRUE, <<MkPhase(ord, 100, 200, 200, 200)>>,
                   1, 1, 1, TRUE, 1)}

LandShapes ==
    \* a locked plot whose plant needs everything
    {MkShape(FALSE, TRUE, <<MkPhase(PlantPhaseSeed, 100, 200, 200, 200)>>,
             1, 1, 1, FALSE, 0)}
    \* no plant; a plant without phase history
    \cup {MkShape(TRUE, FALSE, <<>>, 0, 0, 0, FALSE, 0),
           MkShape(TRUE, TRUE, <<>>, 1, 0, 0, FALSE, 0)}
    \cup OnePhaseShapes(PlantPhaseSeed)
    \cup OnePhaseShapes(PlantPhaseMature)
    \cup OnePhaseShapes(PlantPhaseDead)
    \* mature plots: stealable or not, with or without fruit left
    \cup {MkShape(TRUE, TRUE, <<MkPhase(PlantPhaseMature, 100, 0, 0, 0)>>,
                   0, 0, 0, st, fr) : st \in BOOLEAN, fr \in {0, 3}}
    \* two phases: the thresholds are those of the current one
    \cup {MkShape(TRUE, TRUE,
                   <<MkPhase(PlantPhaseSeed, 100, 100, 0, 100),
                     MkPhase(PlantPhaseBlooming, 200, 0, 200, 0)>>,
                   0, 0, 0, FALSE, 0),
           MkShape(TRUE, TRUE,
                   <<MkPhase(PlantPhaseBlooming, 100, 100, 100, 100),
                     MkPhase(PlantPhaseMature, 200, 0, 0, 0)>>,
                   0, 1, 0, TRUE, 3),
           MkShape(TRUE, TRUE,
                   <<MkPhase(PlantPhaseMature, 100, 0, 0, 0),
                     MkPhase(PlantPhaseDead, 200, 0, 0, 0)>>,
                   1, 0, 0, FALSE, 0)}

WithId(shape, id) ==
    [Id |-> id, Unlocked |-> shape.Unlocked, HasPlant |-> shape.HasPlant,
     Phases |-> shape.Phases, DryNum |-> shape.DryNum,
     WeedOwners |-> shape.WeedOwners, InsectOwners |-> shape.InsectOwners,
     Stealable |-> shape.Stealable, LeftFruitNum |-> shape.LeftFruitNum]

Snapshots(shapes, n) ==
    {[i \in 1..Len(sh) |-> WithId(sh[i], i)] : sh \in SeqsUpTo(shapes, n)}

AnalyzeInit ==
    /\ aLands \in Snapshots(LandShapes, MaxLands)
    /\ aNow \in AnalyzeNowVals
    /\ aStatus = EmptyLandStatus
    /\ aFriendStatus = EmptyFriendLandStatus
    /\ aPc = "input"

RunAnalyze ==
    /\ aPc = "input"
    /\ aStatus' = AnalyzeLands(aLands, aNow)
    /\ aFriendStatus' = AnalyzeFriendLands(aLands, aNow)
    /\ aPc' = "done"
    /\ UNCHANGED <<aLands, aNow>>

(***************************************************************************)
(* The friend orchestrator's quota bookkeeping.  A map is a function on    *)
(* OpIds; a key that is absent maps to a record with Present = FALSE.      *)
(* HelpOnlyWithExp is the constant true.                                   *)
(***************************************************************************)
OpIds == {OpWaterLand, OpSteal}

NoLimit == [Present |-> FALSE, DayTimes |-> 0, DayTimesLt |-> 0,
            DayExpTimes |-> 0]
NoTrack == [Present |-> FALSE, Exp |-> 0]

\* the OperationLimit records a response may carry
LimitRecords ==
    [Id : OpIds, DayTimes : 0..MaxCount, DayTimesLt : {0, MaxCount},
     DayExpTimes : 0..MaxCount]

NoEntries == [limits |-> 0, tracker |-> 0, exhausted |-> 0]

Entries ==
    [limits |-> Cardinality({o \in OpIds : operationLimits[o].Present}),
     tracker |-> Cardinality({o \in OpIds : expTracker[o].Present}),
     exhausted |-> Cardinality({o \in OpIds : expExhausted[o]})]

QuotaInit ==
    /\ qToday = 0
    /\ lastResetDate = 0
    /\ operationLimits = [o \in OpIds |-> NoLimit]
    /\ expTracker = [o \in OpIds |-> NoTrack]
    /\ expExhausted = [o \in OpIds |-> FALSE]
    /\ qLast = "init"
    /\ qBefore = NoEntries

\* the local date changes
NextDay ==
    /\ qToday < MaxDay
    /\ qToday' = qToday + 1
    /\ qLast' = "day"
    /\ qBefore' = NoEntries
    /\ UNCHANGED <<lastResetDate, operationLimits, expTracker, expExhausted>>

\* a reset that leaves the exhaustion marks in place
checkDailyReset_KeepExhausted ==
    IF qToday # lastResetDate
    THEN /\ lastResetDate' = qToday
         /\ operationLimits' = [o \in OpIds |-> NoLimit]
         /\ expTracker' = [o \in OpIds |-> NoTrack]
         /\ expExhausted' = expExhausted
         /\ qLast' = "reset"
         /\ qBefore' = Entries
         /\ UNCHANGED qToday
    ELSE /\ qLast' = "noreset"
         /\ qBefore' = NoEntries
         /\ UNCHANGED <<qToday, lastResetDate, operationLimits, expTracker,
                        expExhausted>>

checkDailyReset ==
    IF qToday # lastResetDate
    THEN /\ lastResetDate' = qToday
         /\ operationLimits' = [o \in OpIds |-> NoLimit]
         /\ expTracker' = [o \in OpIds |-> NoTrack]
         /\ expExhausted' = [o \in OpIds |-> FALSE]
         /\ qLast' = "reset"
         /\ qBefore' = Entries
         /\ UNCHANGED qToday
    ELSE /\ qLast' = "noreset"
         /\ qBefore' = NoEntries
         /\ UNCHANGED <<qToday, lastResetDate, operationLimits, expTracker,
                        expExhausted>>

\* updateOperationLimits: the loop body for one record, on the pair
\* <<operationLimits, expExhausted>>
UpdateOne(st, limit) ==
    LET lims == [st[1] EXCEPT ![limit.Id] =
                    [Present |-> TRUE, DayTimes |-> limit.DayTimes,
                     DayTimesLt |-> limit.DayTimesLt,
                     DayExpTimes |-> limit.DayExpTimes]]
        exh == IF /\ expTracker[limit.Id].Present
                  /\ limit.DayExpTimes <= expTracker[limit.Id].Exp
               THEN [st[2] EXCEPT ![limit.Id] = TRUE]
               ELSE st[2]
    IN  <<lims, exh>>

RECURSIVE UpdateFrom(_, _, _)
UpdateFrom(st, limits, i) ==
    IF i > Len(limits) THEN st
    ELSE UpdateFrom(UpdateOne(st, limits[i]), limits, i + 1)

updateOperationLimits(limits) ==
    LET st == UpdateFrom(<<operationLimits, expExhausted>>, limits, 1)
    IN  /\ operationLimits' = st[1]
        /\ expExhausted' = st[2]
        /\ qLast' = "update"
        /\ qBefore' = NoEntries
        /\ UNCHANGED <<qToday, lastResetDate, expTracker>>

trackExpBefore(opId) ==
    /\ expTracker' =
          IF operationLimits[opId].Present
          THEN [expTracker EXCEPT ![opId] =
                   [Present |-> TRUE,
                    Exp |-> operationLimits[opId].DayExpTimes]]
          ELSE expTracker
    /\ qLast' = "track"
    /\ qBefore' = NoEntries
    /\ UNCHANGED <<qToday, lastResetDate, operationLimits, expExhausted>>

canGetExp(opId) == ~expExhausted[opId]

isLimitReached(opId) ==
    LET limit == operationLimits[opId]
    IN  IF ~limit.Present THEN FALSE
        ELSE limit.DayTimesLt > 0 /\ limit.DayTimes >= limit.DayTimesLt

(***************************************************************************)
(* The reentrancy guards.  isChecking and isCheckingFriends are plain      *)
(* bool fields read and written without a lock; every read and every       *)
(* write is a step of its own.  Positions inside CheckFarm and             *)
(* CheckAllFriends:                                                        *)
(*   "call"  at the if that reads the flag                                 *)
(*   "set"   the flag was read false, the assignment of true is next       *)
(*   "body"  the cycle runs (the deferred reset is registered)             *)
(*   "early" the cycle has returned before any action (no identity yet,    *)
(*           fetch failed, nothing fetched), the deferred reset is next    *)
(*   "defer" the cycle has acted and ended, the deferred reset is next     *)
(*   "ret"   the function has returned                                     *)
(* The cycle's own steps are those of SpecCycle.                           *)
(***************************************************************************)
FarmLoop == <<"loop", 0>>
FarmHandlers == {<<"handler", i>> : i \in 1..MaxHandlers}
FarmGoroutines == {FarmLoop} \cup FarmHandlers

FriendFirst == <<"first", 0>>
FriendTimer == <<"timer", 0>>
FriendGoroutines == {FriendFirst, FriendTimer}

GuardInit ==
    /\ isChecking = FALSE
    /\ loopRunning = FALSE
    /\ farmSubscribed = FALSE
    /\ gPc = [g \in FarmGoroutines |-> IF g = FarmLoop THEN "off" ELSE "idle"]
    /\ isCheckingFriends = FALSE
    /\ friendLoopRunning = FALSE
    /\ fPc = [g \in FriendGoroutines |-> "off"]

\* how the fetch at the head of a cycle ends
FetchPaths == {"noidentity", "fetcherror", "nothing", "fetched"}

farmVarsOnly == <<isChecking, loopRunning, farmSubscribed, gPc>>
friendVarsOnly == <<isCheckingFriends, friendLoopRunning, fPc>>

\* StartFarmCheckLoop up to the sleep: set loopRunning, register the handler
StartFarmCheckLoop ==
    /\ ~loopRunning
    /\ gPc[FarmLoop] = "off"
    /\ loopRunning' = TRUE
    /\ farmSubscribed' = TRUE
    /\ gPc' = [gPc EXCEPT ![FarmLoop] = "starting"]
    /\ UNCHANGED <<isChecking, friendVarsOnly>>

\* StartFarmCheckLoop after the sleep: go fm.farmCheckLoop()
SpawnFarmCheckLoop ==
    /\ gPc[FarmLoop] = "starting"
    /\ gPc' = [gPc EXCEPT ![FarmLoop] = "top"]
    /\ UNCHANGED <<isChecking, loopRunning, farmSubscribed, friendVarsOnly>>

\* farmCheckLoop: the loop condition
FarmLoopTop ==
    /\ gPc[FarmLoop] = "top"
    /\ gPc' = [gPc EXCEPT ![FarmLoop] = IF loopRunning THEN "call" ELSE "exit"]
    /\ UNCHANGED <<isChecking, loopRunning, farmSubscribed, friendVarsOnly>>

\* farmCheckLoop after CheckFarm returned: break, or sleep and loop
FarmLoopAfter ==
    /\ gPc[FarmLoop] = "ret"
    /\ gPc' = [gPc EXCEPT ![FarmLoop] = IF loopRunning THEN "top" ELSE "exit"]
    /\ UNCHANGED <<isChecking, loopRunning, farmSubscribed, friendVarsOnly>>

\* Emit("landsChanged") starts the registered handler in a new goroutine
LandsChanged(h) ==
    /\ farmSubscribed
    /\ gPc[h] = "idle"
    /\ gPc' = [gPc EXCEPT ![h] = "hcheck"]
    /\ UNCHANGED <<isChecking, loopRunning, farmSubscribed, friendVarsOnly>>

\* the handler: return if a check is running, else sleep and call CheckFarm
HandlerCheck(h) ==
    /\ gPc[h] = "hcheck"
    /\ gPc' = [gPc EXCEPT ![h] = IF isChecking THEN "idle" ELSE "call"]
    /\ UNCHANGED <<isChecking, loopRunning, farmSubscribed, friendVarsOnly>>

HandlerReturn(h) ==
    /\ gPc[h] = "ret"
    /\ gPc' = [gPc EXCEPT ![h] = "idle"]
    /\ UNCHANGED <<isChecking, loopRunning, farmSubscribed, friendVarsOnly>>

\* CheckFarm: if fm.isChecking { return }
CheckFarmEnter(g) ==
    /\ gPc[g] = "call"
    /\ gPc' = [gPc EXCEPT ![g] = IF isChecking THEN "ret" ELSE "set"]
    /\ UNCHANGED <<isChecking, loopRunning, farmSubscribed, friendVarsOnly>>

\* CheckFarm: fm.isChecking = true; defer ...
CheckFarmSet(g) ==
    /\ gPc[g] = "set"
    /\ isChecking' = TRUE
    /\ gPc' = [gPc EXCEPT ![g] = "body"]
    /\ UNCHANGED <<loopRunning, farmSubscribed, friendVarsOnly>>

\* a CheckFarm that resets the flag at its end only, not by defer
CheckFarmBody_ResetAtEnd(g) ==
    /\ gPc[g] = "body"
    /\ \E path \in FetchPaths :
         gPc' = [gPc EXCEPT ![g] = IF path = "fetched" THEN "defer"
                                                       ELSE "ret"]
    /\ UNCHANGED <<isChecking, loopRunning, farmSubscribed, friendVarsOnly>>

\* CheckFarm: the cycle, to any of its returns: the early ones when
\* state.GID is 0, when GetAllLands fails or when it brings no lands, or,
\* the lands fetched, the return after the analysis and the action
\* requests (those of SpecCycle), whatever they return
CheckFarmBody(g) ==
    /\ gPc[g] = "body"
    /\ \E path \in FetchPaths :
         gPc' = [gPc EXCEPT ![g] = IF path = "fetched" THEN "defer"
                                                       ELSE "early"]
    /\ UNCHANGED <<isChecking, loopRunning, farmSubscribed, friendVarsOnly>>

\* CheckFarm: the deferred fm.isChecking = false
CheckFarmDefer(g) ==
    /\ gPc[g] \in {"defer", "early"}
    /\ isChecking' = FALSE
    /\ gPc' = [gPc EXCEPT ![g] = "ret"]
    /\ UNCHANGED <<loopRunning, farmSubscribed, friendVarsOnly>>

\* StopFarmCheckLoop: Off("landsChanged", nil) compares the registered
\* handler's address with nil's and removes nothing
StopFarmCheckLoop ==
    /\ loopRunning' = FALSE
    /\ UNCHANGED <<isChecking, farmSubscribed, gPc, friendVarsOnly>>

\* StartFriendCheckLoop: go fm.CheckAllFriends() and the timer goroutine.
\* The handler it registers for "lands_notify" has an empty body.
StartFriendCheckLoop ==
    /\ ~friendLoopRunning
    /\ fPc[FriendFirst] = "off"
    /\ friendLoopRunning' = TRUE
    /\ fPc' = [fPc EXCEPT ![FriendFirst] = "call", ![FriendTimer] = "top"]
    /\ UNCHANGED <<isCheckingFriends, farmVarsOnly>>

\* the timer goroutine: loop condition, sleep
FriendTimerTop ==
    /\ fPc[FriendTimer] = "top"
    /\ fPc' = [fPc EXCEPT ![FriendTimer] =
                  IF friendLoopRunning THEN "slept" ELSE "exit"]
    /\ UNCHANGED <<isCheckingFriends, friendLoopRunning, farmVarsOnly>>

\* the timer goroutine after the sleep: break, or CheckAllFriends
FriendTimerWake ==
    /\ fPc[FriendTimer] = "slept"
    /\ fPc' = [fPc EXCEPT ![FriendTimer] =
                  IF friendLoopRunning THEN "call" ELSE "exit"]
    /\ UNCHANGED <<isCheckingFriends, friendLoopRunning, farmVarsOnly>>

FriendReturn(g) ==
    /\ fPc[g] = "ret"
    /\ fPc' = [fPc EXCEPT ![g] = IF g = FriendTimer THEN "top" ELSE "exit"]
    /\ UNCHANGED <<isCheckingFriends, friendLoopRunning, farmVarsOnly>>

\* CheckAllFriends: if fm.isCheckingFriends { return }
CheckAllFriendsEnter(g) ==
    /\ fPc[g] = "call"
    /\ fPc' = [fPc EXCEPT ![g] = IF isCheckingFriends THEN "ret" ELSE "set"]
    /\ UNCHANGED <<isCheckingFriends, friendLoopRunning, farmVarsOnly>>

\* CheckAllFriends: fm.isCheckingFriends = true; defer ...
CheckAllFriendsSet(g) ==
    /\ fPc[g] = "set"
    /\ isCheckingFriends' = TRUE
    /\ fPc' = [fPc EXCEPT ![g] = "body"]
    /\ UNCHANGED <<friendLoopRunning, farmVarsOnly>>

\* CheckAllFriends: the cycle, to any of its returns: the early ones when
\* GetAllFriends fails or brings no friend, or the return after the visits
\* of the friends' farms, whatever they return
CheckAllFriendsBody(g) ==
    /\ fPc[g] = "body"
    /\ \E path \in FetchPaths \ {"noidentity"} :
         fPc' = [fPc EXCEPT ![g] = IF path = "fetched" THEN "defer"
                                                       ELSE "early"]
    /\ UNCHANGED <<isCheckingFriends, friendLoopRunning, farmVarsOnly>>

\* CheckAllFriends: the deferred fm.isCheckingFriends = false
CheckAllFriendsDefer(g) ==
    /\ fPc[g] \in {"defer", "early"}
    /\ isCheckingFriends' = FALSE
    /\ fPc' = [fPc EXCEPT ![g] = "ret"]
    /\ UNCHANGED <<friendLoopRunning, farmVarsOnly>>

StopFriendCheckLoop ==
    /\ friendLoopRunning' = FALSE
    /\ UNCHANGED <<isCheckingFriends, fPc, farmVarsOnly>>

(***************************************************************************)
(* The network session after login: request/response correlation, the     *)
(* receive loop, the heartbeat goroutine with its watchdog, Cleanup and    *)
(* the shutdown path of main.                                              *)
(*                                                                         *)
(* nm.mu is modelled by mu: a critical section that is one step requires   *)
(* mu = "free"; the watchdog's force-resolve and Cleanup hold the lock     *)
(* over several steps (mu names the holder, muCur the entry whose channel  *)
(* operation is done and whose delete is next).  A callback channel has    *)
(* capacity 1: chanBuf[s] is its buffer, chanClosed the closed channels.   *)
(* A panic in any goroutine ends the process (crashed), and so does the    *)
(* return of main (mPc = "exited").  Of elapsed time the model keeps       *)
(* whether more than 60 s have passed since the last successful heartbeat  *)
(* (stale); a timer may fire at any step.                                  *)
(***************************************************************************)
Heartbeat == "hb"
Callers == {Heartbeat, "c1"}
SeqIds == 1..MaxSeq

\* resp.Basic.Gid of the Login response, which sendLogin stores before
\* onLoginSuccess starts the watchdog: invalid or valid
GidVals == {0, 1}

NetInit ==
    /\ connected = TRUE
    /\ wsOpen = TRUE
    /\ gid \in GidVals
    /\ clientSeq = 0
    /\ seqLog = <<>>
    /\ pendingCallbacks = {}
    /\ chanBuf = [s \in SeqIds |-> "none"]
    /\ chanClosed = {}
    /\ delivered = [s \in SeqIds |-> 0]
    /\ mu = "free"
    /\ muCur = 0
    /\ cPc = [c \in Callers |-> IF c = Heartbeat THEN "tick" ELSE "begin"]
    /\ cSeq = [c \in Callers |-> 0]
    /\ missCount = 0
    /\ cRet = [c \in Callers |-> "none"]
    /\ stale = FALSE
    /\ rPc = "top"
    /\ rCb = 0
    /\ rResp = "none"
    /\ rLast = "none"
    /\ mPc = "wait"
    /\ emits = 0
    /\ crashed = FALSE

sessVars == <<connected, wsOpen, gid>>
seqVars == <<clientSeq, seqLog>>
chanVars == <<chanBuf, chanClosed, delivered>>
lockVars == <<mu, muCur>>
callerVars == <<cPc, cSeq, missCount, cRet, stale>>
recvVars == <<rPc, rCb, rResp, rLast>>
mainVars == <<mPc, emits>>

\* the process is alive
Running == ~crashed /\ mPc # "exited"

\* SendProtoMessage returns to its caller: the heartbeat goroutine goes back
\* to its ticker (a nil error resets the miss counter), any other caller
\* goes on to its next request
Return(c, out) ==
    /\ cPc' = [cPc EXCEPT ![c] = IF c = Heartbeat THEN "tick" ELSE "begin"]
    /\ cSeq' = [cSeq EXCEPT ![c] = 0]
    /\ missCount' = IF c = Heartbeat /\ out = "nil" THEN 0 ELSE missCount
    /\ stale' = IF c = Heartbeat /\ out = "nil" THEN FALSE ELSE stale
    /\ cRet' = [cRet EXCEPT ![c] = out]

\* a tick that counts a miss whatever the time since the last reply
HbTick_CountAlways ==
    /\ Running
    /\ cPc[Heartbeat] = "tick"
    /\ mu = "free"
    /\ IF ~connected \/ gid = 0
       THEN /\ cPc' = [cPc EXCEPT ![Heartbeat] = "stopped"]
            /\ UNCHANGED missCount
       ELSE IF TRUE
            THEN /\ missCount' = missCount + 1
                 /\ cPc' = [cPc EXCEPT ![Heartbeat] =
                               IF missCount + 1 >= MissLimit
                               THEN "lock" ELSE "begin"]
            ELSE /\ cPc' = [cPc EXCEPT ![Heartbeat] = "begin"]
                 /\ UNCHANGED missCount
    /\ cRet' = [cRet EXCEPT ![Heartbeat] = "none"]
    /\ UNCHANGED <<sessVars, seqVars, pendingCallbacks, chanVars, lockVars,
                   cSeq, stale, recvVars, mainVars, crashed>>

\* a tick that does not look at gid
HbTick_IgnoreGid ==
    /\ Running
    /\ cPc[Heartbeat] = "tick"
    /\ mu = "free"
    /\ IF ~connected
       THEN /\ cPc' = [cPc EXCEPT ![Heartbeat] = "stopped"]
            /\ UNCHANGED missCount
       ELSE IF stale
            THEN /\ missCount' = missCount + 1
                 /\ cPc' = [cPc EXCEPT ![Heartbeat] =
                               IF missCount + 1 >= MissLimit
                               THEN "lock" ELSE "begin"]
            ELSE /\ cPc' = [cPc EXCEPT ![Heartbeat] = "begin"]
                 /\ UNCHANGED missCount
    /\ cRet' = [cRet EXCEPT ![Heartbeat] = "none"]
    /\ UNCHANGED <<sessVars, seqVars, pendingCallbacks, chanVars, lockVars,
                   cSeq, stale, recvVars, mainVars, crashed>>

\* heartbeat goroutine, one tick: stop when not connected or gid is 0;
\* count a miss when more than 60 s passed since the last reply; at two
\* misses force-resolve
HbTick ==
    /\ Running
    /\ cPc[Heartbeat] = "tick"
    /\ mu = "free"
    /\ IF ~connected \/ gid = 0
       THEN /\ cPc' = [cPc EXCEPT ![Heartbeat] = "stopped"]
            /\ UNCHANGED missCount
       ELSE IF stale
            THEN /\ missCount' = missCount + 1
                 /\ cPc' = [cPc EXCEPT ![Heartbeat] =
                               IF missCount + 1 >= MissLimit
                               THEN "lock" ELSE "begin"]
            ELSE /\ cPc' = [cPc EXCEPT ![Heartbeat] = "begin"]
                 /\ UNCHANGED missCount
    /\ cRet' = [cRet EXCEPT ![Heartbeat] = "none"]
    /\ UNCHANGED <<sessVars, seqVars, pendingCallbacks, chanVars, lockVars,
                   cSeq, stale, recvVars, mainVars, crashed>>

\* more than 60 s have passed since lastResponseTime
Elapse ==
    /\ Running
    /\ ~stale
    /\ stale' = TRUE
    /\ UNCHANGED <<sessVars, seqVars, pendingCallbacks, chanVars, lockVars,
                   cPc, cSeq, missCount, cRet, recvVars, mainVars, crashed>>

\* watchdog: nm.mu.Lock() before the loop over pendingCallbacks
ForceBegin ==
    /\ Running
    /\ cPc[Heartbeat] = "lock"
    /\ mu = "free"
    /\ mu' = Heartbeat
    /\ cPc' = [cPc EXCEPT ![Heartbeat] = "force"]
    /\ UNCHANGED <<sessVars, seqVars, pendingCallbacks, chanVars, muCur,
                   cSeq, missCount, cRet, stale, recvVars, mainVars, crashed>>

\* watchdog: the non-blocking send of the error result to one entry
ForceSend(s) ==
    /\ Running
    /\ cPc[Heartbeat] = "force"
    /\ muCur = 0
    /\ s \in pendingCallbacks
    /\ muCur' = s
    /\ IF s \in chanClosed
       THEN /\ crashed' = TRUE
            /\ UNCHANGED chanVars
       ELSE /\ UNCHANGED <<crashed, chanClosed>>
            /\ IF chanBuf[s] = "none"
               THEN /\ chanBuf' = [chanBuf EXCEPT ![s] = "forced"]
                    /\ delivered' = [delivered EXCEPT ![s] = @ + 1]
               ELSE UNCHANGED <<chanBuf, delivered>>
    /\ UNCHANGED <<sessVars, seqVars, pendingCallbacks, mu, callerVars,
                   recvVars, mainVars>>

\* watchdog: delete(nm.pendingCallbacks, seq)
ForceDelete ==
    /\ Running
    /\ cPc[Heartbeat] = "force"
    /\ muCur # 0
    /\ pendingCallbacks' = pendingCallbacks \ {muCur}
    /\ muCur' = 0
    /\ UNCHANGED <<sessVars, seqVars, chanVars, mu, callerVars, recvVars,
                   mainVars, crashed>>

\* watchdog: end of the loop, nm.mu.Unlock(), heartbeatMissCount = 0
ForceEnd ==
    /\ Running
    /\ cPc[Heartbeat] = "force"
    /\ muCur = 0
    /\ pendingCallbacks = {}
    /\ mu' = "free"
    /\ missCount' = 0
    /\ cPc' = [cPc EXCEPT ![Heartbeat] = "begin"]
    /\ UNCHANGED <<sessVars, seqVars, pendingCallbacks, chanVars, muCur,
                   cSeq, cRet, stale, recvVars, mainVars, crashed>>

\* SendProtoMessage: read ws and connected under RLock; "connection not
\* open" when either is missing
SendBegin(c) ==
    /\ Running
    /\ cPc[c] = "begin"
    /\ mu = "free"
    /\ IF connected /\ wsOpen
       THEN /\ cPc' = [cPc EXCEPT ![c] = "enc"]
            /\ cRet' = [cRet EXCEPT ![c] = "none"]
            /\ UNCHANGED <<cSeq, missCount, stale>>
       ELSE Return(c, "notopen")
    /\ UNCHANGED <<sessVars, seqVars, pendingCallbacks, chanVars, lockVars,
                   recvVars, mainVars, crashed>>

\* an EncodeMessage that reads the counter and does not advance it
EncodeMessage_NoAdd(c) ==
    /\ Running
    /\ cPc[c] = "enc"
    /\ Len(seqLog) < MaxSeq
    /\ UNCHANGED clientSeq
    /\ cSeq' = [cSeq EXCEPT ![c] = clientSeq + 1]
    /\ seqLog' = Append(seqLog, clientSeq + 1)
    /\ cPc' = [cPc EXCEPT ![c] = "reg"]
    /\ UNCHANGED <<sessVars, pendingCallbacks, chanVars, lockVars, missCount,
                   cRet, stale, recvVars, mainVars, crashed>>

\* EncodeMessage: seq := atomic.AddInt64(&nm.clientSeq, 1).  seqLog lists
\* the values in the order they are assigned.
EncodeMessage(c) ==
    /\ Running
    /\ cPc[c] = "enc"
    /\ Len(seqLog) < MaxSeq
    /\ clientSeq' = clientSeq + 1
    /\ cSeq' = [cSeq EXCEPT ![c] = clientSeq + 1]
    /\ seqLog' = Append(seqLog, clientSeq + 1)
    /\ cPc' = [cPc EXCEPT ![c] = "reg"]
    /\ UNCHANGED <<sessVars, pendingCallbacks, chanVars, lockVars, missCount,
                   cRet, stale, recvVars, mainVars, crashed>>

\* SendProtoMessage: callback := make(chan *Response, 1), registered
\* under the lock
Register(c) ==
    /\ Running
    /\ cPc[c] = "reg"
    /\ mu = "free"
    /\ pendingCallbacks' = pendingCallbacks \cup {cSeq[c]}
    /\ cPc' = [cPc EXCEPT ![c] = "write"]
    /\ UNCHANGED <<sessVars, seqVars, chanVars, lockVars, cSeq, missCount,
                   cRet, stale, recvVars, mainVars, crashed>>

\* SendProtoMessage: ws.WriteMessage on the socket read at the start; it
\* fails once the socket is closed and may fail before
WriteMessage(c) ==
    /\ Running
    /\ cPc[c] = "write"
    /\ \E ok \in BOOLEAN :
         /\ ok => wsOpen
         /\ cPc' = [cPc EXCEPT ![c] = IF ok THEN "wait" ELSE "wfail"]
    /\ UNCHANGED <<sessVars, seqVars, pendingCallbacks, chanVars, lockVars,
                   cSeq, missCount, cRet, stale, recvVars, mainVars, crashed>>

\* a write-failure path that returns and leaves the entry in the table
WriteFailed_KeepEntry(c) ==
    /\ Running
    /\ cPc[c] = "wfail"
    /\ mu = "free"
    /\ UNCHANGED pendingCallbacks
    /\ Return(c, "writeerr")
    /\ UNCHANGED <<sessVars, seqVars, chanVars, lockVars, recvVars,
                   mainVars, crashed>>

\* SendProtoMessage: write failed, delete the entry and return the error
WriteFailed(c) ==
    /\ Running
    /\ cPc[c] = "wfail"
    /\ mu = "free"
    /\ pendingCallbacks' = pendingCallbacks \ {cSeq[c]}
    /\ Return(c, "writeerr")
    /\ UNCHANGED <<sessVars, seqVars, chanVars, lockVars, recvVars,
                   mainVars, crashed>>

\* a SendProtoMessage that does not look at the response's error
Outcome_ErrorIgnored(resp, parsed) ==
    IF parsed THEN "nil" ELSE "parse"

\* what SendProtoMessage returns for a received response: its error (of a
\* Response with an error code, or the watchdog's), else the error of
\* decoding the body, else nil
Outcome(resp, parsed) ==
    CASE resp = "err" -> "proto"
      [] resp = "forced" -> "forced"
      [] resp = "ok" /\ ~parsed -> "parse"
      [] OTHER -> "nil"

\* SendProtoMessage: case response := <-callback.  The call returns nil
\* when the response has no error and its body parses.  A closed channel
\* yields nil and response.Err dereferences it.
Receive(c) ==
    /\ Running
    /\ cPc[c] = "wait"
    /\ IF chanBuf[cSeq[c]] # "none"
       THEN /\ chanBuf' = [chanBuf EXCEPT ![cSeq[c]] = "none"]
            /\ \E parsed \in BOOLEAN :
                  Return(c, Outcome(chanBuf[cSeq[c]], parsed))
            /\ UNCHANGED crashed
       ELSE /\ cSeq[c] \in chanClosed
            /\ crashed' = TRUE
            /\ UNCHANGED <<chanBuf, callerVars>>
    /\ UNCHANGED <<sessVars, seqVars, pendingCallbacks, chanClosed,
                   delivered, lockVars, recvVars, mainVars>>

\* SendProtoMessage: case <-time.After(to)
Timeout(c) ==
    /\ Running
    /\ cPc[c] = "wait"
    /\ cPc' = [cPc EXCEPT ![c] = "tmo"]
    /\ UNCHANGED <<sessVars, seqVars, pendingCallbacks, chanVars, lockVars,
                   cSeq, missCount, cRet, stale, recvVars, mainVars, crashed>>

\* a timeout branch that returns and leaves the entry in the table
TimeoutDelete_KeepEntry(c) ==
    /\ Running
    /\ cPc[c] = "tmo"
    /\ mu = "free"
    /\ UNCHANGED pendingCallbacks
    /\ Return(c, "timeout")
    /\ UNCHANGED <<sessVars, seqVars, chanVars, lockVars, recvVars,
                   mainVars, crashed>>

\* SendProtoMessage: the timeout branch deletes the entry and returns
TimeoutDelete(c) ==
    /\ Running
    /\ cPc[c] = "tmo"
    /\ mu = "free"
    /\ pendingCallbacks' = pendingCallbacks \ {cSeq[c]}
    /\ Return(c, "timeout")
    /\ UNCHANGED <<sessVars, seqVars, chanVars, lockVars, recvVars,
                   mainVars, crashed>>

\* receiveLoop: read nm.ws, leave the loop when it is nil
RecvTop ==
    /\ Running
    /\ rPc = "top"
    /\ mu = "free"
    /\ rPc' = IF wsOpen THEN "read" ELSE "done"
    /\ rLast' = "none"
    /\ UNCHANGED <<sessVars, seqVars, pendingCallbacks, chanVars, lockVars,
                   callerVars, rCb, rResp, mainVars, crashed>>

\* receiveLoop: ReadMessage returns an error, Cleanup is called
RecvError ==
    /\ Running
    /\ rPc = "read"
    /\ rPc' = "cleanup"
    /\ UNCHANGED <<sessVars, seqVars, pendingCallbacks, chanVars, lockVars,
                   callerVars, rCb, rResp, rLast, mainVars, crashed>>

\* handleMessage, a frame that is no Response: undecodable, without meta,
\* a Notify or an unknown type
RecvOther ==
    /\ Running
    /\ rPc = "read"
    /\ wsOpen
    /\ rPc' = "top"
    /\ rLast' = "other"
    /\ UNCHANGED <<sessVars, seqVars, pendingCallbacks, chanVars, lockVars,
                   callerVars, rCb, rResp, mainVars, crashed>>

\* a handleMessage that looks the entry up and leaves it in the table
RecvResponse_KeepEntry(s, e) ==
    /\ Running
    /\ rPc = "read"
    /\ wsOpen
    /\ mu = "free"
    /\ IF s \in pendingCallbacks
       THEN /\ rCb' = s
            /\ rResp' = e
            /\ rPc' = "deliver"
            /\ rLast' = "take"
       ELSE /\ rPc' = "top"
            /\ rLast' = IF s <= clientSeq THEN "late" ELSE "drop"
            /\ UNCHANGED <<rCb, rResp>>
    /\ UNCHANGED <<sessVars, seqVars, pendingCallbacks, chanVars, lockVars,
                   callerVars, mainVars, crashed>>

\* a handleMessage that hands a Response nobody waits for to a pending
\* request
RecvResponse_WakeOther(s, e) ==
    /\ Running
    /\ rPc = "read"
    /\ wsOpen
    /\ mu = "free"
    /\ IF pendingCallbacks # {}
       THEN \E t \in pendingCallbacks :
              /\ s \in pendingCallbacks => t = s
              /\ pendingCallbacks' = pendingCallbacks \ {t}
              /\ rCb' = t
              /\ rResp' = e
              /\ rPc' = "deliver"
              /\ rLast' = "take"
       ELSE /\ rPc' = "top"
            /\ rLast' = IF s <= clientSeq THEN "late" ELSE "drop"
            /\ UNCHANGED <<pendingCallbacks, rCb, rResp>>
    /\ UNCHANGED <<sessVars, seqVars, chanVars, lockVars, callerVars,
                   mainVars, crashed>>

\* handleMessage, a Response with clientSeq s and error code e: under the
\* lock look the entry up and delete it; without an entry the frame is
\* dropped.  rLast records what was done with the frame: "take", or a drop
\* of a sequence number handed out before ("late") or never ("drop").
RecvResponse(s, e) ==
    /\ Running
    /\ rPc = "read"
    /\ wsOpen
    /\ mu = "free"
    /\ IF s \in pendingCallbacks
       THEN /\ pendingCallbacks' = pendingCallbacks \ {s}
            /\ rCb' = s
            /\ rResp' = e
            /\ rPc' = "deliver"
            /\ rLast' = "take"
       ELSE /\ rPc' = "top"
            /\ rLast' = IF s <= clientSeq THEN "late" ELSE "drop"
            /\ UNCHANGED <<pendingCallbacks, rCb, rResp>>
    /\ UNCHANGED <<sessVars, seqVars, chanVars, lockVars, callerVars,
                   mainVars, crashed>>

\* handleMessage: callback <- resp, after the lock is released.  The send
\* blocks while the buffer is full and panics on a closed channel.
RecvDeliver ==
    /\ Running
    /\ rPc = "deliver"
    /\ IF rCb \in chanClosed
       THEN /\ crashed' = TRUE
            /\ UNCHANGED <<chanVars, recvVars>>
       ELSE /\ chanBuf[rCb] = "none"
            /\ chanBuf' = [chanBuf EXCEPT ![rCb] = rResp]
            /\ delivered' = [delivered EXCEPT ![rCb] = @ + 1]
            /\ rCb' = 0
            /\ rResp' = "none"
            /\ rPc' = "top"
            /\ UNCHANGED <<chanClosed, rLast, crashed>>
    /\ UNCHANGED <<sessVars, seqVars, pendingCallbacks, lockVars,
                   callerVars, mainVars>>

\* The goroutines that call Cleanup: the receive loop after a read error
\* and main after the exit signal.
Cleaners == {"recv", "main"}
CleanerPc(g) == IF g = "recv" THEN rPc ELSE mPc
CleanerGoes(g, pc) ==
    IF g = "recv"
    THEN rPc' = pc /\ UNCHANGED mPc
    ELSE mPc' = pc /\ UNCHANGED rPc
\* where the caller of Cleanup continues: the receive loop breaks, main
\* returns
AfterCleanup(g) == IF g = "recv" THEN "done" ELSE "exited"

\* Cleanup: lock; return when not connected; else connected = false,
\* ws.Close(), ws = nil
CleanupBegin(g) ==
    /\ Running
    /\ CleanerPc(g) = "cleanup"
    /\ mu = "free"
    /\ IF ~connected
       THEN /\ CleanerGoes(g, AfterCleanup(g))
            /\ UNCHANGED <<sessVars, mu>>
       ELSE /\ connected' = FALSE
            /\ wsOpen' = FALSE
            /\ UNCHANGED gid
            /\ mu' = g
            /\ CleanerGoes(g, "closing")
    /\ UNCHANGED <<seqVars, pendingCallbacks, chanVars, muCur, callerVars,
                   rCb, rResp, rLast, emits, crashed>>

\* Cleanup: close(ch) for one entry of the table
CleanupClose(g, s) ==
    /\ Running
    /\ CleanerPc(g) = "closing"
    /\ muCur = 0
    /\ s \in pendingCallbacks
    /\ chanClosed' = chanClosed \cup {s}
    /\ delivered' = [delivered EXCEPT ![s] = @ + 1]
    /\ muCur' = s
    /\ UNCHANGED <<sessVars, seqVars, pendingCallbacks, chanBuf, mu,
                   callerVars, recvVars, mainVars, crashed>>

\* Cleanup: delete(nm.pendingCallbacks, seq)
CleanupDelete(g) ==
    /\ Running
    /\ CleanerPc(g) = "closing"
    /\ muCur # 0
    /\ pendingCallbacks' = pendingCallbacks \ {muCur}
    /\ muCur' = 0
    /\ UNCHANGED <<sessVars, seqVars, chanVars, mu, callerVars, recvVars,
                   mainVars, crashed>>

\* Cleanup: after the loop, Emit("disconnected") and the deferred unlock
CleanupEmit(g) ==
    /\ Running
    /\ CleanerPc(g) = "closing"
    /\ muCur = 0
    /\ pendingCallbacks = {}
    /\ emits' = emits + 1
    /\ mu' = "free"
    /\ CleanerGoes(g, AfterCleanup(g))
    /\ UNCHANGED <<sessVars, seqVars, pendingCallbacks, chanVars, muCur,
                   callerVars, rCb, rResp, rLast, crashed>>

\* main: <-sigChan returns (SIGINT, SIGTERM, or the handler of
\* "disconnected"); the loops are stopped and Cleanup is called
ExitSignal ==
    /\ Running
    /\ mPc = "wait"
    /\ mPc' = "cleanup"
    /\ UNCHANGED <<sessVars, seqVars, pendingCallbacks, chanVars, lockVars,
                   callerVars, recvVars, emits, crashed>>

(***************************************************************************)
(* CheckFarm from GetAllLands on.  work tells which lists of AnalyzeLands  *)
(* came out non-empty.  The three care goroutines append to the slice      *)
(* actions of the enclosing function with no lock: an append is a read of  *)
(* the slice followed by a write of the extended slice, and the two are    *)
(* steps of their own.  Each network call ends with success or an error.   *)
(***************************************************************************)
Care == {"weed", "bug", "water"}
WorkKinds == Care \cup {"harvest", "dead", "empty"}

CycleInit ==
    /\ yPc = "fetch"
    /\ work \in [WorkKinds -> BOOLEAN]
    /\ carePc = [k \in Care |-> "off"]
    /\ careOk = [k \in Care |-> "none"]
    /\ careLocal = [k \in Care |-> <<>>]
    /\ actions = <<>>
    /\ harvested = FALSE
    /\ reported = <<>>

\* CheckFarm: GetAllLands fails or has no lands (return), or the lands are
\* analysed and actions := []string{}
FetchLands ==
    /\ yPc = "fetch"
    /\ \E ok \in BOOLEAN : yPc' = IF ok THEN "spawn" ELSE "end"
    /\ UNCHANGED <<work, carePc, careOk, careLocal, actions, harvested,
                   reported>>

\* CheckFarm: one goroutine for each non-empty list of NeedWeed, NeedBug,
\* NeedWater
SpawnCare ==
    /\ yPc = "spawn"
    /\ carePc' = [k \in Care |-> IF work[k] THEN "call" ELSE "off"]
    /\ yPc' = "wait"
    /\ UNCHANGED <<work, careOk, careLocal, actions, harvested, reported>>

\* care goroutine: WeedOut / Insecticide / WaterLand returns
CareCall(k) ==
    /\ carePc[k] = "call"
    /\ \E ok \in BOOLEAN :
         /\ careOk' = [careOk EXCEPT ![k] = IF ok THEN "ok" ELSE "err"]
         /\ carePc' = [carePc EXCEPT ![k] = IF ok THEN "read" ELSE "done"]
    /\ UNCHANGED <<yPc, work, careLocal, actions, harvested, reported>>

\* care goroutine: append(actions, ...) reads the slice
CareAppendRead(k) ==
    /\ carePc[k] = "read"
    /\ careLocal' = [careLocal EXCEPT ![k] = actions]
    /\ carePc' = [carePc EXCEPT ![k] = "write"]
    /\ UNCHANGED <<yPc, work, careOk, actions, harvested, reported>>

\* care goroutine: actions = the slice read, extended by the entry
CareAppendWrite(k) ==
    /\ carePc[k] = "write"
    /\ actions' = Append(careLocal[k], k)
    /\ carePc' = [carePc EXCEPT ![k] = "done"]
    /\ UNCHANGED <<yPc, work, careOk, careLocal, harvested, reported>>

\* a CheckFarm that does not wait for its care goroutines
CareWait_NoWait ==
    /\ yPc = "wait"
    /\ yPc' = "harvest"
    /\ UNCHANGED <<work, carePc, careOk, careLocal, actions, harvested,
                   reported>>

\* CheckFarm: wg.Wait() returns
CareWait ==
    /\ yPc = "wait"
    /\ \A k \in Care : carePc[k] \in {"off", "done"}
    /\ yPc' = "harvest"
    /\ UNCHANGED <<work, carePc, careOk, careLocal, actions, harvested,
                   reported>>

\* CheckFarm: Harvest when Harvestable is non-empty
HarvestStep ==
    /\ yPc = "harvest"
    /\ IF work["harvest"]
       THEN \E ok \in BOOLEAN :
              /\ actions' = IF ok THEN Append(actions, "harvest") ELSE actions
              /\ harvested' = ok
       ELSE UNCHANGED <<actions, harvested>>
    /\ yPc' = "plant"
    /\ UNCHANGED <<work, carePc, careOk, careLocal, reported>>

\* CheckFarm: AutoPlantEmptyLands is called when there is a dead, harvested
\* or empty plot
PlantStep ==
    /\ yPc = "plant"
    /\ yPc' = IF work["dead"] \/ harvested \/ work["empty"]
              THEN "clear" ELSE "log"
    /\ UNCHANGED <<work, carePc, careOk, careLocal, actions, harvested,
                   reported>>

\* AutoPlantEmptyLands returns to CheckFarm, which notes the planting in
\* actions when the error is nil
PlantReturn(ok) ==
    /\ actions' = IF ok THEN Append(actions, "plant") ELSE actions
    /\ yPc' = "log"
    /\ UNCHANGED <<work, carePc, careOk, careLocal, harvested, reported>>

\* AutoPlantEmptyLands: RemovePlant for the dead and harvested plots when
\* there are any; with no plot left to plant it returns nil
CycleClear ==
    /\ yPc = "clear"
    /\ \E ok \in BOOLEAN :
         LET removed == (work["dead"] \/ harvested) /\ ok
         IN  IF work["empty"] \/ removed
             THEN /\ yPc' = "seed"
                  /\ UNCHANGED <<work, carePc, careOk, careLocal, actions,
                                 harvested, reported>>
             ELSE PlantReturn(TRUE)

\* AutoPlantEmptyLands: FindBestSeed; an error or no seed is returned
CycleSeed ==
    /\ yPc = "seed"
    /\ \E ok \in BOOLEAN :
         IF ok
         THEN /\ yPc' = "buy"
              /\ UNCHANGED <<work, carePc, careOk, careLocal, actions,
                             harvested, reported>>
         ELSE PlantReturn(FALSE)

\* AutoPlantEmptyLands: the gold test and BuyGoods; no gold for one seed or
\* a failed purchase is returned
CycleBuy ==
    /\ yPc = "buy"
    /\ \E ok \in BOOLEAN :
         IF ok
         THEN /\ yPc' = "sow"
              /\ UNCHANGED <<work, carePc, careOk, careLocal, actions,
                             harvested, reported>>
         ELSE PlantReturn(FALSE)

\* AutoPlantEmptyLands: PlantSeeds, which returns no error; with no plot
\* planted the function returns nil
CyclePlant ==
    /\ yPc = "sow"
    /\ \E some \in BOOLEAN :
         IF some
         THEN /\ yPc' = "fertilize"
              /\ UNCHANGED <<work, carePc, careOk, careLocal, actions,
                             harvested, reported>>
         ELSE PlantReturn(TRUE)

\* AutoPlantEmptyLands: Fertilize, whose result is only logged; return nil
CycleFertilize ==
    /\ yPc = "fertilize"
    /\ PlantReturn(TRUE)

\* CheckFarm: the log line with the joined action list
LogStep ==
    /\ yPc = "log"
    /\ reported' = actions
    /\ yPc' = "end"
    /\ UNCHANGED <<work, carePc, careOk, careLocal, actions, harvested>>

\* farmCheckLoop: the next cycle, on a new analysis
NextCycle ==
    /\ yPc = "end"
    /\ yPc' = "fetch"
    /\ work' \in [WorkKinds -> BOOLEAN]
    /\ carePc' = [k \in Care |-> "off"]
    /\ careOk' = [k \in Care |-> "none"]
    /\ careLocal' = [k \in Care |-> <<>>]
    /\ actions' = <<>>
    /\ harvested' = FALSE
    /\ reported' = <<>>

(***************************************************************************)
(* The session from Connect to shutdown: sendLogin and the onLoginSuccess  *)
(* callback of main, the receive loop with handleNotify, the EventEmitter  *)
(* and the handler goroutines it starts, Cleanup, and main waiting on      *)
(* sigChan.  The state is the one right after Connect has returned nil.    *)
(* The handlers registered: the closure of StartFarmCheckLoop for          *)
(* "landsChanged" ("farm"), the closure of StartFriendCheckLoop for        *)
(* "lands_notify" ("friend"), the closure of StartTaskCheckLoop for        *)
(* "task_info_notify" ("task") and the closure of main for "disconnected"  *)
(* ("exit"); nothing listens to "kickout".  Requests other than Login are  *)
(* left out.                                                               *)
(***************************************************************************)
EventKinds == {"landsChanged", "kickout", "taskInfoNotify", "disconnected",
               "lands_notify", "task_info_notify"}
NotifyKinds == {"landsChanged", "kickout", "taskInfoNotify"}
HandlerNames == {"farm", "friend", "task", "exit"}
Emitters == {"loop", "main"}
ReplyKinds == {"basic", "nobasic", "err"}

EventsInit ==
    /\ handlers = [k \in EventKinds |-> <<>>]
    /\ eConnected = TRUE
    /\ eMu = "free"
    /\ loginPc = "sleep"
    /\ loginPending = FALSE
    /\ loginChan = "none"
    /\ loopPc = "read"
    /\ emitKind = [c \in Emitters |-> "none"]
    /\ emitList = [c \in Emitters |-> <<>>]
    /\ emitIdx = [c \in Emitters |-> 0]
    /\ running = [h \in HandlerNames |-> 0]
    /\ sigChan = 0
    /\ mainPc = "wait"
    /\ frames = 0
    /\ ePanic = FALSE

emitVars == <<emitKind, emitList, emitIdx>>
loginVars == <<loginPc, loginPending, loginChan>>

\* the process is alive
Alive == ~ePanic /\ mainPc # "exited"

\* EventEmitter.On: append the handler to the list of the event
On(event, handler) ==
    handlers' = [handlers EXCEPT ![event] = Append(@, handler)]

\* the goroutine is inside Emit
Emitting(c) ==
    IF c = "loop" THEN loopPc \in {"emit", "cemit"} ELSE mainPc = "cemit"

\* Emit: handlers := e.handlers[event] under RLock
EmitCopy(c) ==
    /\ Alive
    /\ Emitting(c)
    /\ emitIdx[c] = 0
    /\ emitList' = [emitList EXCEPT ![c] = handlers[emitKind[c]]]
    /\ emitIdx' = [emitIdx EXCEPT ![c] = 1]
    /\ UNCHANGED <<handlers, eConnected, eMu, loginVars, loopPc, emitKind,
                   running, sigChan, mainPc, frames, ePanic>>

\* an Emit that calls the handler itself and so goes on only when no
\* handler is running
EmitGo_Call(c) ==
    /\ Alive
    /\ Emitting(c)
    /\ emitIdx[c] \in 1..Len(emitList[c])
    /\ \A h \in HandlerNames : running[h] = 0
    /\ running' = [running EXCEPT ![emitList[c][emitIdx[c]]] = @ + 1]
    /\ emitIdx' = [emitIdx EXCEPT ![c] = @ + 1]
    /\ UNCHANGED <<handlers, eConnected, eMu, loginVars, loopPc, emitKind,
                   emitList, sigChan, mainPc, frames, ePanic>>

\* Emit: go handler(data) for the next handler of the copied list
EmitGo(c) ==
    /\ Alive
    /\ Emitting(c)
    /\ emitIdx[c] \in 1..Len(emitList[c])
    /\ running' = [running EXCEPT ![emitList[c][emitIdx[c]]] = @ + 1]
    /\ emitIdx' = [emitIdx EXCEPT ![c] = @ + 1]
    /\ UNCHANGED <<handlers, eConnected, eMu, loginVars, loopPc, emitKind,
                   emitList, sigChan, mainPc, frames, ePanic>>

\* Emit returns: handleNotify returns to the receive loop; Cleanup returns,
\* releasing nm.mu, and the receive loop breaks / main returns
EmitReturn(c) ==
    /\ Alive
    /\ Emitting(c)
    /\ emitIdx[c] = Len(emitList[c]) + 1
    /\ emitIdx' = [emitIdx EXCEPT ![c] = 0]
    /\ emitList' = [emitList EXCEPT ![c] = <<>>]
    /\ emitKind' = [emitKind EXCEPT ![c] = "none"]
    /\ IF c = "loop"
       THEN /\ loopPc' = IF loopPc = "emit" THEN "read" ELSE "done"
            /\ eMu' = IF loopPc = "emit" THEN eMu ELSE "free"
            /\ UNCHANGED mainPc
       ELSE /\ mainPc' = "exited"
            /\ eMu' = "free"
            /\ UNCHANGED loopPc
    /\ UNCHANGED <<handlers, eConnected, loginVars, running, sigChan,
                   frames, ePanic>>

\* the landsChanged handler returns (it runs a farm check first)
FarmHandlerReturn ==
    /\ Alive
    /\ running["farm"] > 0
    /\ running' = [running EXCEPT !["farm"] = @ - 1]
    /\ UNCHANGED <<handlers, eConnected, eMu, loginVars, loopPc, emitVars,
                   sigChan, mainPc, frames, ePanic>>

\* the disconnected handler of main: sigChan <- syscall.SIGTERM on the
\* channel of capacity 1
ExitHandler ==
    /\ Alive
    /\ running["exit"] > 0
    /\ sigChan = 0
    /\ sigChan' = 1
    /\ running' = [running EXCEPT !["exit"] = @ - 1]
    /\ UNCHANGED <<handlers, eConnected, eMu, loginVars, loopPc, emitVars,
                   mainPc, frames, ePanic>>

\* sendLogin: time.Sleep(500 ms) is over
LoginSleep ==
    /\ Alive
    /\ loginPc = "sleep"
    /\ loginPc' = "send"
    /\ UNCHANGED <<handlers, eConnected, eMu, loginPending, loginChan,
                   loopPc, emitVars, running, sigChan, mainPc, frames,
                   ePanic>>

\* sendLogin -> SendProtoMessage: the connected check
LoginSend ==
    /\ Alive
    /\ loginPc = "send"
    /\ eMu = "free"
    /\ loginPc' = IF eConnected THEN "reg" ELSE "failed"
    /\ UNCHANGED <<handlers, eConnected, eMu, loginPending, loginChan,
                   loopPc, emitVars, running, sigChan, mainPc, frames,
                   ePanic>>

\* SendProtoMessage: register the callback and write the frame; a failed
\* write deletes the entry again
LoginWrite ==
    /\ Alive
    /\ loginPc = "reg"
    /\ eMu = "free"
    /\ \E ok \in BOOLEAN :
         /\ ok => eConnected
         /\ loginPending' = ok
         /\ loginPc' = IF ok THEN "wait" ELSE "failed"
    /\ UNCHANGED <<handlers, eConnected, eMu, loginChan, loopPc, emitVars,
                   running, sigChan, mainPc, frames, ePanic>>

\* SendProtoMessage: case response := <-callbackChan; a closed channel
\* yields nil and response.Err panics.  sendLogin returns on an error and
\* on a reply without Basic
LoginReceive ==
    /\ Alive
    /\ loginPc = "wait"
    /\ loginChan # "none"
    /\ IF loginChan = "closed"
       THEN /\ ePanic' = TRUE
            /\ UNCHANGED <<loginPc, loginChan>>
       ELSE /\ loginPc' = CASE loginChan = "basic" -> "got"
                            [] loginChan = "nobasic" -> "done"
                            [] OTHER -> "failed"
            /\ loginChan' = "none"
            /\ UNCHANGED ePanic
    /\ UNCHANGED <<handlers, eConnected, eMu, loginPending, loopPc,
                   emitVars, running, sigChan, mainPc, frames>>

\* SendProtoMessage: case <-time.After(15 s), delete the entry
LoginTimeout ==
    /\ Alive
    /\ loginPc = "wait"
    /\ eMu = "free"
    /\ loginPending' = FALSE
    /\ loginPc' = "failed"
    /\ UNCHANGED <<handlers, eConnected, eMu, loginChan, loopPc, emitVars,
                   running, sigChan, mainPc, frames, ePanic>>

\* sendLogin: read nm.onLoginSuccess under RLock and call it
LoginCallback ==
    /\ Alive
    /\ loginPc = "got"
    /\ eMu = "free"
    /\ loginPc' = "success"
    /\ UNCHANGED <<handlers, eConnected, eMu, loginPending, loginChan,
                   loopPc, emitVars, running, sigChan, mainPc, frames,
                   ePanic>>

\* onLoginSuccess of main: StartHeartbeat, ProcessInviteCodes and
\* StartFarmCheckLoop, which registers the landsChanged handler
LoginStartModules ==
    /\ Alive
    /\ loginPc = "success"
    /\ On("landsChanged", "farm")
    /\ loginPc' = "modules"
    /\ UNCHANGED <<eConnected, eMu, loginPending, loginChan, loopPc,
                   emitVars, running, sigChan, mainPc, frames, ePanic>>

\* onLoginSuccess of main: StartFriendCheckLoop, which registers its
\* handler for "lands_notify"; the goroutine that will start the task
\* loop is started
LoginStartFriend ==
    /\ Alive
    /\ loginPc = "modules"
    /\ On("lands_notify", "friend")
    /\ loginPc' = "friends"
    /\ UNCHANGED <<eConnected, eMu, loginPending, loginChan, loopPc,
                   emitVars, running, sigChan, mainPc, frames, ePanic>>

\* the goroutine started by onLoginSuccess, after its sleep:
\* StartTaskCheckLoop registers its handler for "task_info_notify"
TaskStart ==
    /\ Alive
    /\ loginPc \in {"friends", "done"}
    /\ handlers["task_info_notify"] = <<>>
    /\ On("task_info_notify", "task")
    /\ UNCHANGED <<eConnected, eMu, loginVars, loopPc, emitVars, running,
                   sigChan, mainPc, frames, ePanic>>

\* onLoginSuccess of main, last statement: On("disconnected", ...)
LoginOnDisconnected ==
    /\ Alive
    /\ loginPc = "friends"
    /\ On("disconnected", "exit")
    /\ loginPc' = "done"
    /\ UNCHANGED <<eConnected, eMu, loginPending, loginChan, loopPc,
                   emitVars, running, sigChan, mainPc, frames, ePanic>>

\* receiveLoop -> handleMessage: the Response to Login; the entry is
\* deleted under nm.mu and the response sent to its channel
LoopLoginReply(kind) ==
    /\ Alive
    /\ loopPc = "read"
    /\ eConnected
    /\ eMu = "free"
    /\ loginPending
    /\ loginPending' = FALSE
    /\ loginChan' = kind
    /\ UNCHANGED <<handlers, eConnected, eMu, loginPc, loopPc, emitVars,
                   running, sigChan, mainPc, frames, ePanic>>

\* receiveLoop -> handleMessage -> handleNotify: a Notify frame whose
\* event is published
LoopNotify(kind) ==
    /\ Alive
    /\ loopPc = "read"
    /\ eConnected
    /\ frames < MaxFrames
    /\ frames' = frames + 1
    /\ loopPc' = "emit"
    /\ emitKind' = [emitKind EXCEPT !["loop"] = kind]
    /\ UNCHANGED <<handlers, eConnected, eMu, loginVars, emitList, emitIdx,
                   running, sigChan, mainPc, ePanic>>

\* what makes handleMessage return without acting on a frame
DropKinds == {"undecodable", "nometa", "otherkind"}

\* a dropped frame taken for a failed read
LoopDrop_AsReadError(why) ==
    /\ Alive
    /\ loopPc = "read"
    /\ eConnected
    /\ frames < MaxFrames
    /\ frames' = frames + 1
    /\ loopPc' = "cleanup"
    /\ UNCHANGED <<handlers, eConnected, eMu, loginVars, emitVars, running,
                   sigChan, mainPc, ePanic>>

\* receiveLoop -> handleMessage: proto.Unmarshal fails, msg.Meta is nil,
\* or the message type is neither 2 nor 3; handleMessage returns and the
\* loop reads again
LoopDrop(why) ==
    /\ Alive
    /\ loopPc = "read"
    /\ eConnected
    /\ frames < MaxFrames
    /\ frames' = frames + 1
    /\ UNCHANGED <<handlers, eConnected, eMu, loginVars, loopPc, emitVars,
                   running, sigChan, mainPc, ePanic>>

\* receiveLoop: ReadMessage returns an error
LoopReadError ==
    /\ Alive
    /\ loopPc = "read"
    /\ loopPc' = "cleanup"
    /\ UNCHANGED <<handlers, eConnected, eMu, loginVars, emitVars, running,
                   sigChan, mainPc, frames, ePanic>>

\* Cleanup up to its Emit: under nm.mu, return when not connected, else
\* connected = false, close the socket, close and delete the pending
\* callback
CleanupBody(c) ==
    /\ eMu = "free"
    /\ IF ~eConnected
       THEN /\ IF c = "loop"
               THEN loopPc' = "done" /\ UNCHANGED mainPc
               ELSE mainPc' = "exited" /\ UNCHANGED loopPc
            /\ UNCHANGED <<eConnected, eMu, loginPending, loginChan,
                           emitKind>>
       ELSE /\ eConnected' = FALSE
            /\ eMu' = c
            /\ loginPending' = FALSE
            /\ loginChan' = IF loginPending THEN "closed" ELSE loginChan
            /\ emitKind' = [emitKind EXCEPT ![c] = "disconnected"]
            /\ IF c = "loop"
               THEN loopPc' = "cemit" /\ UNCHANGED mainPc
               ELSE mainPc' = "cemit" /\ UNCHANGED loopPc
    /\ UNCHANGED <<handlers, loginPc, emitList, emitIdx, running, sigChan,
                   frames, ePanic>>

\* receiveLoop: nm.Cleanup() after the read error
LoopCleanup ==
    /\ Alive
    /\ loopPc = "cleanup"
    /\ CleanupBody("loop")

\* a SIGINT or SIGTERM of the operating system; signal.Notify does not
\* block when the channel is full
OsSignal ==
    /\ Alive
    /\ sigChan = 0
    /\ sigChan' = 1
    /\ UNCHANGED <<handlers, eConnected, eMu, loginVars, loopPc, emitVars,
                   running, mainPc, frames, ePanic>>

\* main: <-sigChan
MainWait ==
    /\ Alive
    /\ mainPc = "wait"
    /\ sigChan > 0
    /\ sigChan' = sigChan - 1
    /\ mainPc' = "stop"
    /\ UNCHANGED <<handlers, eConnected, eMu, loginVars, loopPc, emitVars,
                   running, frames, ePanic>>

\* main: the Stop... calls of the modules (Off("landsChanged", nil)
\* removes no handler)
MainStop ==
    /\ Alive
    /\ mainPc = "stop"
    /\ mainPc' = "cleanup"
    /\ UNCHANGED <<handlers, eConnected, eMu, loginVars, loopPc, emitVars,
                   running, sigChan, frames, ePanic>>

\* main: network.Net.Cleanup()
MainCleanup ==
    /\ Alive
    /\ mainPc = "cleanup"
    /\ CleanupBody("main")

(***************************************************************************)
(* Friend visits of one day, one after the other (CheckFriendFarm ->       *)
(* performFriendOperations) with the steal loop and the water loop, on the *)
(* quota fields above.  A visit finds vSteal stealable plots and vWater    *)
(* plots that need water; the counters in the responses of the server are  *)
(* arbitrary within the bounds.  Of the three assistance kinds (water,     *)
(* weed, insect), whose loops are copies of one another, the model keeps   *)
(* water.  Only StealFromFriend gives its response's limits to             *)
(* updateOperationLimits: the help calls go through FarmManager.WaterLand, *)
(* which drops them.                                                       *)
(***************************************************************************)
HelpOps == {OpWaterLand}

\* the limits a Harvest reply carries: the steal record alone or with the
\* water record; no list when the call fails or the reply has none
StealRecords ==
    [Id : {OpSteal}, DayTimes : 0..MaxCount, DayTimesLt : {0, MaxCount},
     DayExpTimes : {0}]
WaterRecords ==
    [Id : {OpWaterLand}, DayTimes : 0..MaxCount, DayTimesLt : {MaxCount},
     DayExpTimes : 0..MaxCount]
StealReplies ==
    {<<>>} \cup {<<l>> : l \in StealRecords}
    \cup {<<l, w>> : l \in StealRecords, w \in WaterRecords}

VisitInit ==
    /\ vPc = "idle"
    /\ vSteal = 0
    /\ vWater = 0
    /\ vI = 0
    /\ vStolen = <<>>
    /\ vHelped = [o \in HelpOps |-> FALSE]

\* CheckFriendFarm: enter the farm and analyse its lands
EnterFriendFarm(nSteal, nWater) ==
    /\ vPc = "idle"
    /\ vSteal' = nSteal
    /\ vWater' = nWater
    /\ vStolen' = <<>>
    /\ vI' = 0
    /\ vPc' = "steal"
    /\ UNCHANGED <<quotaVars, vHelped>>

\* performFriendOperations: if len(status.CanSteal) > 0 &&
\* !fm.isLimitReached(OpSteal)
StealGuard ==
    /\ vPc = "steal"
    /\ IF vSteal > 0 /\ ~isLimitReached(OpSteal)
       THEN vPc' = "stealLoop" /\ vI' = 1
       ELSE vPc' = "water" /\ vI' = 0
    /\ UNCHANGED <<quotaVars, vSteal, vWater, vStolen, vHelped>>

\* the steal loop ends: past the last plot, or break on the reached limit
StealLoopEnd ==
    /\ vPc = "stealLoop"
    /\ vI > vSteal \/ isLimitReached(OpSteal)
    /\ vPc' = "water"
    /\ vI' = 0
    /\ UNCHANGED <<quotaVars, vSteal, vWater, vStolen, vHelped>>

\* a steal loop that does not test the limit again before a request
StealFromFriend_NoCheck(limits) ==
    /\ vPc = "stealLoop"
    /\ vI <= vSteal
    /\ vStolen' = Append(vStolen, vI)
    /\ vI' = vI + 1
    /\ IF limits # <<>>
       THEN updateOperationLimits(limits)
       ELSE UNCHANGED quotaVars
    /\ UNCHANGED <<vPc, vSteal, vWater, vHelped>>

\* one pass of the steal loop: the limit test, StealFromFriend for the
\* plot, and updateOperationLimits on a reply that carries limits
StealFromFriend(limits) ==
    /\ vPc = "stealLoop"
    /\ vI <= vSteal
    /\ ~isLimitReached(OpSteal)
    /\ vStolen' = Append(vStolen, vI)
    /\ vI' = vI + 1
    /\ IF limits # <<>>
       THEN updateOperationLimits(limits)
       ELSE UNCHANGED quotaVars
    /\ UNCHANGED <<vPc, vSteal, vWater, vHelped>>

\* a water block that is not guarded by canGetExp
WaterGuard_NoExpTest ==
    /\ vPc = "water"
    /\ IF /\ vWater > 0
          /\ ~isLimitReached(OpWaterLand)
       THEN /\ trackExpBefore(OpWaterLand)
            /\ vHelped' = IF operationLimits[OpWaterLand].Present
                          THEN [vHelped EXCEPT ![OpWaterLand] = FALSE]
                          ELSE vHelped
            /\ vPc' = "waterLoop"
            /\ vI' = 1
       ELSE /\ vPc' = "idle"
            /\ vI' = 0
            /\ UNCHANGED <<quotaVars, vHelped>>
    /\ UNCHANGED <<vSteal, vWater, vStolen>>

\* performFriendOperations: the guard of the water block and
\* trackExpBefore(OpWaterLand)
WaterGuard ==
    /\ vPc = "water"
    /\ IF /\ vWater > 0
          /\ canGetExp(OpWaterLand)
          /\ ~isLimitReached(OpWaterLand)
       THEN /\ trackExpBefore(OpWaterLand)
            /\ vHelped' = IF operationLimits[OpWaterLand].Present
                          THEN [vHelped EXCEPT ![OpWaterLand] = FALSE]
                          ELSE vHelped
            /\ vPc' = "waterLoop"
            /\ vI' = 1
       ELSE /\ vPc' = "idle"
            /\ vI' = 0
            /\ UNCHANGED <<quotaVars, vHelped>>
    /\ UNCHANGED <<vSteal, vWater, vStolen>>

\* a water block after which the steal block runs
WaterLoopEnd_ThenSteal ==
    /\ vPc = "waterLoop"
    /\ vI > vWater \/ isLimitReached(OpWaterLand)
    /\ vPc' = "steal"
    /\ vI' = 0
    /\ UNCHANGED <<quotaVars, vSteal, vWater, vStolen, vHelped>>

\* the water loop ends; LeaveFriendFarm
WaterLoopEnd ==
    /\ vPc = "waterLoop"
    /\ vI > vWater \/ isLimitReached(OpWaterLand)
    /\ vPc' = "idle"
    /\ vI' = 0
    /\ UNCHANGED <<quotaVars, vSteal, vWater, vStolen, vHelped>>

\* one pass of the water loop: HelpWaterLand for the plot
HelpWaterLand(ok) ==
    /\ vPc = "waterLoop"
    /\ vI <= vWater
    /\ ~isLimitReached(OpWaterLand)
    /\ vHelped' = IF ok THEN [vHelped EXCEPT ![OpWaterLand] = TRUE]
                  ELSE vHelped
    /\ vI' = vI + 1
    /\ UNCHANGED <<quotaVars, vPc, vSteal, vWater, vStolen>>

(***************************************************************************)
(* The harvest and planting part of CheckFarm (after wg.Wait) with         *)
(* AutoPlantEmptyLands, PlantSeeds and Fertilize, and the requests it      *)
(* sends.  pKinds is the analysed snapshot: the kind of each plot, the     *)
(* plot's id being its index; every call may fail.                         *)
(***************************************************************************)
PlotKinds == {"mature", "empty", "dead", "growing"}
SeedIds == {"seedA", "seedB"}

\* the ids of the plots of a kind, in snapshot order (the lists Harvestable,
\* Dead and Empty of AnalyzeLands)
RECURSIVE PlotsFrom(_, _, _)
PlotsFrom(kinds, kind, i) ==
    IF i > Len(kinds) THEN <<>>
    ELSE IF kinds[i] = kind THEN <<i>> \o PlotsFrom(kinds, kind, i + 1)
    ELSE PlotsFrom(kinds, kind, i + 1)
PlotsOf(kinds, kind) == PlotsFrom(kinds, kind, 1)

Request(op, lands, seed, num, ok) ==
    [op |-> op, lands |-> lands, seed |-> seed, num |-> num, ok |-> ok]

PlantInit ==
    /\ pPc = "harvest"
    /\ pKinds \in UNION {[1..n -> PlotKinds] : n \in 1..MaxLands}
    /\ pGold \in 0..MaxGold
    /\ pLog = <<>>
    /\ harvestedLandIds = <<>>
    /\ landsToPlant = <<>>
    /\ bestSeed = [SeedId |-> "none", Price |-> 0]
    /\ actualSeedId = "none"
    /\ planted = 0
    /\ pI = 0
    /\ pSeedOf = [l \in 1..Len(pKinds) |-> "none"]
    /\ pFailed = FALSE
    /\ pShort = FALSE

plantIn == <<pKinds, pGold>>

\* CheckFarm: Harvest(status.Harvestable) when the list is non-empty; then
\* AutoPlantEmptyLands is called when a dead, harvested or empty plot exists
HarvestCall ==
    /\ pPc = "harvest"
    /\ LET Harvestable == PlotsOf(pKinds, "mature")
       IN  IF Len(Harvestable) > 0
           THEN \E ok \in BOOLEAN :
                  /\ pLog' = Append(pLog,
                                Request("Harvest", Harvestable, "none", 0, ok))
                  /\ harvestedLandIds' = IF ok THEN Harvestable ELSE <<>>
                  /\ pFailed' = ~ok
           ELSE UNCHANGED <<pLog, harvestedLandIds, pFailed>>
    /\ pPc' = IF Len(PlotsOf(pKinds, "dead") \o harvestedLandIds') > 0
                 \/ Len(PlotsOf(pKinds, "empty")) > 0
              THEN "remove" ELSE "end"
    /\ UNCHANGED <<plantIn, landsToPlant, bestSeed, actualSeedId, planted,
                   pI, pSeedOf, pShort>>

\* an AutoPlantEmptyLands that plants the empty plots only
RemoveDead_EmptyOnly ==
    /\ pPc = "remove"
    /\ LET deadLandIds == PlotsOf(pKinds, "dead") \o harvestedLandIds
           emptyLandIds == PlotsOf(pKinds, "empty")
       IN  /\ IF Len(deadLandIds) > 0
              THEN \E ok \in BOOLEAN :
                     /\ pLog' = Append(pLog,
                            Request("RemovePlant", deadLandIds, "none", 0, ok))
                     /\ landsToPlant' = emptyLandIds
                     /\ pFailed' = (pFailed \/ ~ok)
              ELSE /\ landsToPlant' = emptyLandIds
                   /\ UNCHANGED <<pLog, pFailed>>
           /\ pPc' = IF Len(landsToPlant') = 0 THEN "end" ELSE "seed"
    /\ UNCHANGED <<plantIn, harvestedLandIds, bestSeed, actualSeedId,
                   planted, pI, pSeedOf, pShort>>

\* AutoPlantEmptyLands, step 1: landsToPlant is the empty plots, and after
\* a successful RemovePlant of the dead and harvested plots, those too
RemoveDead ==
    /\ pPc = "remove"
    /\ LET deadLandIds == PlotsOf(pKinds, "dead") \o harvestedLandIds
           emptyLandIds == PlotsOf(pKinds, "empty")
       IN  /\ IF Len(deadLandIds) > 0
              THEN \E ok \in BOOLEAN :
                     /\ pLog' = Append(pLog,
                            Request("RemovePlant", deadLandIds, "none", 0, ok))
                     /\ landsToPlant' = IF ok THEN emptyLandIds \o deadLandIds
                                        ELSE emptyLandIds
                     /\ pFailed' = (pFailed \/ ~ok)
              ELSE /\ landsToPlant' = emptyLandIds
                   /\ UNCHANGED <<pLog, pFailed>>
           /\ pPc' = IF Len(landsToPlant') = 0 THEN "end" ELSE "seed"
    /\ UNCHANGED <<plantIn, harvestedLandIds, bestSeed, actualSeedId,
                   planted, pI, pSeedOf, pShort>>

\* AutoPlantEmptyLands, step 2: FindBestSeed asks for the shop and picks a
\* seed; an error or no seed ends the planting
FindBestSeed ==
    /\ pPc = "seed"
    /\ \/ /\ pLog' = Append(pLog,
                 Request("ShopInfo", <<>>, "none", 0, FALSE))
          /\ pFailed' = TRUE
          /\ pPc' = "end"
          /\ UNCHANGED bestSeed
       \/ \E s \in SeedIds, price \in 1..MaxGold :
            /\ pLog' = Append(pLog,
                   Request("ShopInfo", <<>>, "none", 0, TRUE))
            /\ bestSeed' = [SeedId |-> s, Price |-> price]
            /\ pPc' = "buy"
            /\ UNCHANGED pFailed
    /\ UNCHANGED <<plantIn, harvestedLandIds, landsToPlant, actualSeedId,
                   planted, pI, pSeedOf, pShort>>

\* handleBasicNotify on the receive loop's goroutine: UpdateGold with the
\* gold of the notification when it is positive.  AutoPlantEmptyLands
\* reads state.Gold through the pointer GetUserState returns, without the
\* lock, so each of its reads sees the value of that moment.
BasicNotifyGold(g) ==
    /\ pPc \in {"harvest", "remove", "seed", "buy", "short"}
    /\ g > 0
    /\ g # pGold
    /\ pGold' = g
    /\ UNCHANGED <<pPc, pKinds, pLog, harvestedLandIds, landsToPlant,
                   bestSeed, actualSeedId, planted, pI, pSeedOf, pFailed,
                   pShort>>

\* the size classes of the allocator for slices of int64, in elements
SizeClasses == {1, 2, 3, 4, 6, 8, 10, 12, 14, 16}

\* runtime.growslice for a small []int64: twice the old capacity, or the
\* needed length when that is more, rounded up to a size class
GrowCap(old, needed) ==
    LET want == IF needed > 2 * old THEN needed ELSE 2 * old
    IN  CHOOSE c \in SizeClasses :
            /\ c >= want
            /\ \A d \in SizeClasses : d >= want => c <= d

\* cap(landsToPlant) before the budget test: make([]int64, len(empty)),
\* grown by the append of the cleared plots
LandsCap ==
    LET e == Len(PlotsOf(pKinds, "empty"))
    IN  IF Len(landsToPlant) > e THEN GrowCap(e, Len(landsToPlant)) ELSE e

\* landsToPlant[:n] for n <= cap: the elements past the length are the
\* zeroed rest of the backing array
Reslice(list, n) ==
    [j \in 1..n |-> IF j <= Len(list) THEN list[j] ELSE 0]

\* AutoPlantEmptyLands, step 3: totalCost > state.Gold
BudgetTest ==
    /\ pPc = "buy"
    /\ LET totalCost == bestSeed.Price * Len(landsToPlant)
       IN  pPc' = IF totalCost > pGold THEN "short" ELSE "purchase"
    /\ UNCHANGED <<plantIn, pLog, harvestedLandIds, landsToPlant, bestSeed,
                   actualSeedId, planted, pI, pSeedOf, pFailed, pShort>>

\* AutoPlantEmptyLands, step 3 with too little gold: canBuy from a second
\* read of state.Gold; landsToPlant[:canBuy] panics past the capacity
Shrink ==
    /\ pPc = "short"
    /\ pShort' = TRUE
    /\ LET canBuy == pGold \div bestSeed.Price
       IN  IF canBuy <= 0
           THEN pPc' = "end" /\ UNCHANGED landsToPlant
           ELSE IF canBuy > LandsCap
           THEN pPc' = "panic" /\ UNCHANGED landsToPlant
           ELSE /\ landsToPlant' = Reslice(landsToPlant, canBuy)
                /\ pPc' = "purchase"
    /\ UNCHANGED <<plantIn, pLog, harvestedLandIds, bestSeed, actualSeedId,
                   planted, pI, pSeedOf, pFailed>>

\* AutoPlantEmptyLands, step 3: BuyGoods for len(landsToPlant) seeds, take
\* the seed id of the reply when it carries one
BuyGoods ==
    /\ pPc = "purchase"
    /\ \/ /\ pLog' = Append(pLog, Request("BuyGoods", <<>>,
                          bestSeed.SeedId, Len(landsToPlant), FALSE))
          /\ pFailed' = TRUE
          /\ pPc' = "end"
          /\ UNCHANGED <<actualSeedId, pI>>
       \/ \E got \in SeedIds \cup {"none"} :
            /\ pLog' = Append(pLog, Request("BuyGoods", <<>>,
                            bestSeed.SeedId, Len(landsToPlant), TRUE))
            /\ actualSeedId' = IF got # "none" THEN got
                               ELSE bestSeed.SeedId
            /\ pPc' = "plant"
            /\ pI' = 1
            /\ UNCHANGED pFailed
    /\ UNCHANGED <<plantIn, harvestedLandIds, landsToPlant, bestSeed,
                   planted, pSeedOf, pShort>>

\* PlantSeeds: one Plant request for each plot; a failure is skipped
PlantSeeds ==
    /\ pPc = "plant"
    /\ IF pI <= Len(landsToPlant)
       THEN /\ \E ok \in BOOLEAN :
                 /\ pLog' = Append(pLog, Request("Plant",
                        <<landsToPlant[pI]>>, actualSeedId, 0, ok))
                 /\ planted' = IF ok THEN planted + 1 ELSE planted
                 /\ pSeedOf' = IF ok /\ landsToPlant[pI] \in DOMAIN pSeedOf
                     THEN [pSeedOf EXCEPT ![landsToPlant[pI]] = actualSeedId]
                     ELSE pSeedOf
                 /\ pFailed' = (pFailed \/ ~ok)
            /\ pI' = pI + 1
            /\ UNCHANGED pPc
       ELSE /\ pPc' = IF planted > 0 THEN "fertilize" ELSE "end"
            /\ pI' = 1
            /\ UNCHANGED <<pLog, planted, pSeedOf, pFailed>>
    /\ UNCHANGED <<plantIn, harvestedLandIds, landsToPlant, bestSeed,
                   actualSeedId, pShort>>

\* a Fertilize that goes on to the next plot after a failure
Fertilize_Continue ==
    /\ pPc = "fertilize"
    /\ IF pI <= planted
       THEN /\ \E ok \in BOOLEAN :
                 /\ pLog' = Append(pLog, Request("Fertilize",
                        <<landsToPlant[pI]>>, "none", 0, ok))
                 /\ pFailed' = (pFailed \/ ~ok)
            /\ pI' = pI + 1
            /\ UNCHANGED pPc
       ELSE /\ pPc' = "end"
            /\ UNCHANGED <<pLog, pI, pFailed>>
    /\ UNCHANGED <<plantIn, harvestedLandIds, landsToPlant, bestSeed,
                   actualSeedId, planted, pSeedOf, pShort>>

\* Fertilize(landsToPlant[:planted]): one request for each plot, stopping
\* at the first failure
Fertilize ==
    /\ pPc = "fertilize"
    /\ IF pI <= planted
       THEN /\ \E ok \in BOOLEAN :
                 /\ pLog' = Append(pLog, Request("Fertilize",
                        <<landsToPlant[pI]>>, "none", 0, ok))
                 /\ pPc' = IF ok THEN pPc ELSE "end"
                 /\ pFailed' = (pFailed \/ ~ok)
            /\ pI' = pI + 1
       ELSE /\ pPc' = "end"
            /\ UNCHANGED <<pLog, pI, pFailed>>
    /\ UNCHANGED <<plantIn, harvestedLandIds, landsToPlant, bestSeed,
                   actualSeedId, planted, pSeedOf, pShort>>

(***************************************************************************)
(* A cycle of CheckAllFriends: the daily reset, the list of friends, and   *)
(* for each friend the summary test, CheckFriendFarm (Enter, the visit of  *)
(* performFriendOperations as above, the deferred Leave) and the pause.    *)
(* tLog is the requests since the latest Enter, it included, in order of   *)
(* sending, each with the friend it is for; tEnterOk says whether that     *)
(* Enter succeeded.  The local date may change at any moment; tOld is the  *)
(* operation kinds whose record in operationLimits was stored before the   *)
(* latest change of date.                                                  *)
(***************************************************************************)
TourOps == {"Enter", "Steal", "Water", "Leave"}

Sent(op, friend) == [op |-> op, friend |-> friend]

TourInit ==
    /\ tPc = "start"
    /\ tCount = 0
    /\ tFriend = 0
    /\ tLog = <<>>
    /\ tEnterOk = FALSE
    /\ tOld = {}

\* the local date changes, between or inside cycles
TourNextDay ==
    /\ NextDay
    /\ tOld' = {o \in OpIds : operationLimits[o].Present}
    /\ UNCHANGED <<visitVars, tPc, tCount, tFriend, tLog, tEnterOk>>

\* CheckAllFriends up to the loop: checkDailyReset, GetAllFriends; an
\* error or an empty list is n = 0
CheckAllFriendsBegin(n) ==
    /\ tPc = "start"
    /\ checkDailyReset
    /\ tCount' = n
    /\ tFriend' = 1
    /\ tLog' = <<>>
    /\ tEnterOk' = FALSE
    /\ tOld' = IF qToday # lastResetDate THEN {} ELSE tOld
    /\ tPc' = "pick"
    /\ UNCHANGED visitVars

\* the loop over the friends: the end of the list, or the summary test
\* (StealPlantNum > 0 and the steal limit not reached, DryNum > 0 and water
\* still giving experience and its limit not reached)
FriendSummary(stealNum, dryNum) ==
    /\ tPc = "pick"
    /\ IF tFriend > tCount
       THEN tPc' = "done" /\ UNCHANGED tFriend
       ELSE LET hasAction ==
                  \/ stealNum > 0 /\ ~isLimitReached(OpSteal)
                  \/ /\ dryNum > 0
                     /\ canGetExp(OpWaterLand)
                     /\ ~isLimitReached(OpWaterLand)
            IN  IF hasAction
                THEN tPc' = "enter" /\ UNCHANGED tFriend
                ELSE tPc' = "pick" /\ tFriend' = tFriend + 1
    /\ UNCHANGED <<quotaVars, visitVars, tCount, tLog, tEnterOk, tOld>>

\* a CheckFriendFarm that goes on to the operations after a failed Enter
CheckFriendFarmEnter_IgnoreError(ok, nSteal, nWater) ==
    /\ tPc = "enter"
    /\ tLog' = <<Sent("Enter", tFriend)>>
    /\ tEnterOk' = ok
    /\ EnterFriendFarm(nSteal, nWater)
    /\ tPc' = "visit"
    /\ UNCHANGED <<tCount, tFriend, tOld>>

\* CheckFriendFarm: EnterFriendFarm; on an error return, else defer the
\* Leave and analyse the lands of the reply
CheckFriendFarmEnter(ok, nSteal, nWater) ==
    /\ tPc = "enter"
    /\ tLog' = <<Sent("Enter", tFriend)>>
    /\ tEnterOk' = ok
    /\ IF ok
       THEN /\ EnterFriendFarm(nSteal, nWater)
            /\ tPc' = "visit"
            /\ UNCHANGED <<tCount, tFriend, tOld>>
       ELSE /\ tPc' = "pick"
            /\ tFriend' = tFriend + 1
            /\ UNCHANGED <<quotaVars, visitVars, tCount, tOld>>

\* the steps of performFriendOperations that send nothing
VisitStep ==
    /\ tPc = "visit"
    /\ StealGuard \/ StealLoopEnd \/ WaterGuard \/ WaterLoopEnd
    /\ UNCHANGED <<tPc, tCount, tFriend, tLog, tEnterOk, tOld>>

\* a pass of the steal loop; a failed request carries no limits
VisitSteal(ok, limits) ==
    /\ tPc = "visit"
    /\ ~ok => limits = <<>>
    /\ StealFromFriend(limits)
    /\ tLog' = Append(tLog, Sent("Steal", tFriend))
    /\ tOld' = tOld \ {limits[i].Id : i \in 1..Len(limits)}
    /\ UNCHANGED <<tPc, tCount, tFriend, tEnterOk>>

\* a pass of the water loop; HelpWaterLand returns FarmManager.WaterLand's
\* reply, whose limits nobody reads
VisitWater(ok, limits) ==
    /\ tPc = "visit"
    /\ ~ok => limits = <<>>
    /\ HelpWaterLand(ok)
    /\ tLog' = Append(tLog, Sent("Water", tFriend))
    /\ UNCHANGED <<tPc, tCount, tFriend, tEnterOk, tOld>>

\* CheckFriendFarm returns: the deferred LeaveFriendFarm, whose error is
\* dropped; then the pause and the next friend
LeaveFriendFarm(ok) ==
    /\ tPc = "visit"
    /\ vPc = "idle"
    /\ tLog' = Append(tLog, Sent("Leave", tFriend))
    /\ tFriend' = tFriend + 1
    /\ tPc' = "pick"
    /\ UNCHANGED <<quotaVars, visitVars, tCount, tEnterOk, tOld>>

\* the timer of the friend loop starts the next cycle
TourAgain ==
    /\ tPc = "done"
    /\ tPc' = "start"
    /\ UNCHANGED <<quotaVars, visitVars, tCount, tFriend, tLog, tEnterOk, tOld>>

(***************************************************************************)
(* UserState between the login and the notifications.  sendLogin waits for *)
(* the Login response, which the receive loop delivers to its channel, and *)
(* then calls Set in its own goroutine; the receive loop goes on with the  *)
(* next frame, and handles a BasicNotify frame in handleBasicNotify.  uMu  *)
(* is UserState.mu.  Set writes its fields one after the other under the   *)
(* lock; the Update methods are one locked write each.  uAcc is the latest *)
(* access to a field of UserState: who made it, to which field, whether it *)
(* wrote, and whether it was made inside a critical section of uMu.        *)
(* uNewest is, per field, the latest positive value of a BasicNotify that  *)
(* arrived after the Login response.                                       *)
(***************************************************************************)
BasicFields == {"Level", "Gold", "Exp"}

NoBasic == [f \in BasicFields |-> 0]

\* resp.Basic of the Login response, with the level it reports or a
\* higher one; no response yet is NoReply
LoginReplies == [GID : {1}, Level : {1, 2}, Gold : {1}, Exp : {1}]
NoReply == [GID |-> 0, Level |-> 0, Gold |-> 0, Exp |-> 0]

\* notify.Basic of a BasicNotify frame: the values after a change; a field
\* the server leaves out is 0
NotifyBasics == [BasicFields -> {0, 2}]

Access(by, field, write, held) ==
    [by |-> by, field |-> field, write |-> write, held |-> held]

UserInit ==
    /\ userState = NoReply
    /\ uMu = "free"
    /\ uLoginPc = "wait"
    /\ uResp = NoReply
    /\ uLoopPc = "read"
    /\ uBasic = NoBasic
    /\ uOld = [Level |-> 0, Gold |-> 0]
    /\ uFrames = 0
    /\ uNewest = NoBasic
    /\ uAcc = Access("none", "none", FALSE, TRUE)

\* receiveLoop -> handleMessage: the Login response is sent to the channel
\* of the waiting sendLogin
UserLoginReply(reply) ==
    /\ uLoopPc = "read"
    /\ uLoginPc = "wait"
    /\ uResp = NoReply
    /\ uResp' = reply
    /\ UNCHANGED <<userState, uMu, uLoginPc, uLoopPc, uBasic, uOld, uFrames,
                   uNewest, uAcc>>

\* sendLogin: SendProtoMessage returns the response; resp.Basic != nil
UserLoginReceive ==
    /\ uLoginPc = "wait"
    /\ uResp # NoReply
    /\ uLoginPc' = "got"
    /\ UNCHANGED <<userState, uMu, uResp, uLoopPc, uBasic, uOld, uFrames,
                   uNewest, uAcc>>

\* UserState.Set: u.mu.Lock()
UserSetLock ==
    /\ uLoginPc = "got"
    /\ uMu = "free"
    /\ uMu' = "login"
    /\ uLoginPc' = "locked"
    /\ UNCHANGED <<userState, uResp, uLoopPc, uBasic, uOld, uFrames,
                   uNewest, uAcc>>

\* UserState.Set: u.GID = gid, u.Name = name
UserSetIdentity ==
    /\ uLoginPc = "locked"
    /\ userState' = [userState EXCEPT !.GID = uResp.GID]
    /\ uAcc' = Access("login", "GID", TRUE, uMu = "login")
    /\ uLoginPc' = "mid"
    /\ UNCHANGED <<uMu, uResp, uLoopPc, uBasic, uOld, uFrames, uNewest>>

\* UserState.Set: u.Level = level, u.Gold = gold, u.Exp = exp, and the
\* deferred Unlock
UserSetBasic ==
    /\ uLoginPc = "mid"
    /\ userState' = [userState EXCEPT !.Level = uResp.Level,
                                      !.Gold = uResp.Gold,
                                      !.Exp = uResp.Exp]
    /\ uAcc' = Access("login", "Level, Gold, Exp", TRUE, uMu = "login")
    /\ uMu' = "free"
    /\ uLoginPc' = "set"
    /\ UNCHANGED <<uResp, uLoopPc, uBasic, uOld, uFrames, uNewest>>

\* sendLogin: onLoginSuccess starts the watchdog and the scheduler loops
UserLoginSuccess ==
    /\ uLoginPc = "set"
    /\ uLoginPc' = "done"
    /\ UNCHANGED <<userState, uMu, uResp, uLoopPc, uBasic, uOld, uFrames,
                   uNewest, uAcc>>

\* receiveLoop -> handleNotify: a BasicNotify frame with notify.Basic
UserBasicNotify(basic) ==
    /\ uLoopPc = "read"
    /\ uFrames < MaxFrames
    /\ uFrames' = uFrames + 1
    /\ uBasic' = basic
    /\ uNewest' = IF uResp # NoReply
                  THEN [f \in BasicFields |->
                           IF basic[f] > 0 THEN basic[f] ELSE uNewest[f]]
                  ELSE uNewest
    /\ uLoopPc' = "old"
    /\ UNCHANGED <<userState, uMu, uLoginPc, uResp, uOld, uAcc>>

\* handleBasicNotify: oldLevel := nm.userState.Level and
\* oldGold := nm.userState.Gold, read with no lock
NotifyReadOld ==
    /\ uLoopPc = "old"
    /\ uOld' = [Level |-> userState.Level, Gold |-> userState.Gold]
    /\ uAcc' = Access("loop", "Level, Gold", FALSE, uMu = "loop")
    /\ uLoopPc' = "Level"
    /\ UNCHANGED <<userState, uMu, uLoginPc, uResp, uBasic, uFrames,
                   uNewest>>

\* the field handleBasicNotify turns to after a field
AfterField(f) ==
    CASE f = "Level" -> "Gold"
      [] f = "Gold" -> "Exp"
      [] f = "Exp" -> "log"

\* handleBasicNotify: if notify.Basic.<field> > 0, UpdateLevel / UpdateGold
\* / UpdateExp, each of which locks, writes and unlocks
NotifyUpdate(f) ==
    /\ uLoopPc = f
    /\ IF uBasic[f] > 0
       THEN /\ uMu = "free"
            /\ userState' = [userState EXCEPT ![f] = uBasic[f]]
            /\ uAcc' = Access("loop", f, TRUE, TRUE)
       ELSE UNCHANGED <<userState, uAcc>>
    /\ uLoopPc' = AfterField(f)
    /\ UNCHANGED <<uMu, uLoginPc, uResp, uBasic, uOld, uFrames, uNewest>>

\* handleBasicNotify: nm.userState.Level != oldLevel and
\* nm.userState.Gold > oldGold+10000, read with no lock, for the log lines
NotifyLog ==
    /\ uLoopPc = "log"
    /\ uAcc' = Access("loop", "Level, Gold", FALSE, uMu = "loop")
    /\ uLoopPc' = "read"
    /\ UNCHANGED <<userState, uMu, uLoginPc, uResp, uBasic, uOld, uFrames,
                   uNewest>>

\* the goroutines started by onLoginSuccess that read UserState
UserReaders == {"watchdog", "cycle"}

\* StartHeartbeat's tick: gid := nm.userState.GID under nm.mu.RLock;
\* a scheduler cycle: state := GetUserState(), then state.GID, state.Gold.
\* Neither takes UserState.mu.
ReadField(g) ==
    /\ uLoginPc = "done"
    /\ uAcc' = Access(g, IF g = "watchdog" THEN "GID" ELSE "GID, Gold",
                      FALSE, uMu = g)
    /\ uAcc' # uAcc
    /\ UNCHANGED <<userState, uMu, uLoginPc, uResp, uLoopPc, uBasic, uOld,
                   uFrames, uNewest>>

UserIdle ==
    /\ userState = NoReply
    /\ uMu = "free"
    /\ uLoginPc = "off"
    /\ uResp = NoReply
    /\ uLoopPc = "off"
    /\ uBasic = NoBasic
    /\ uOld = [Level |-> 0, Gold |-> 0]
    /\ uFrames = 0
    /\ uNewest = NoBasic
    /\ uAcc = Access("none", "none", FALSE, TRUE)

TourIdle ==
    /\ tPc = "off"
    /\ tCount = 0
    /\ tFriend = 0
    /\ tLog = <<>>
    /\ tEnterOk = FALSE
    /\ tOld = {}

PlantIdle ==
    /\ pPc = "off"
    /\ pKinds = <<>>
    /\ pGold = 0
    /\ pLog = <<>>
    /\ harvestedLandIds = <<>>
    /\ landsToPlant = <<>>
    /\ bestSeed = [SeedId |-> "none", Price |-> 0]
    /\ actualSeedId = "none"
    /\ planted = 0
    /\ pI = 0
    /\ pSeedOf = <<>>
    /\ pFailed = FALSE
    /\ pShort = FALSE

VisitIdle ==
    /\ vPc = "off"
    /\ vSteal = 0
    /\ vWater = 0
    /\ vI = 0
    /\ vStolen = <<>>
    /\ vHelped = [o \in HelpOps |-> FALSE]

EventsIdle ==
    /\ handlers = [k \in EventKinds |-> <<>>]
    /\ eConnected = FALSE
    /\ eMu = "free"
    /\ loginPc = "off"
    /\ loginPending = FALSE
    /\ loginChan = "none"
    /\ loopPc = "off"
    /\ emitKind = [c \in Emitters |-> "none"]
    /\ emitList = [c \in Emitters |-> <<>>]
    /\ emitIdx = [c \in Emitters |-> 0]
    /\ running = [h \in HandlerNames |-> 0]
    /\ sigChan = 0
    /\ mainPc = "off"
    /\ frames = 0
    /\ ePanic = FALSE

(***************************************************************************)
(* The groups of variables at rest.                                        *)
(***************************************************************************)
PhaseIdle ==
    /\ phList = <<>>
    /\ phNow = 0
    /\ phResult = 0
    /\ phFriendResult = 0
    /\ phPc = "off"

AnalyzeIdle ==
    /\ aLands = <<>>
    /\ aNow = 0
    /\ aStatus = EmptyLandStatus
    /\ aFriendStatus = EmptyFriendLandStatus
    /\ aPc = "off"

QuotaIdle ==
    /\ qToday = 0
    /\ lastResetDate = 0
    /\ operationLimits = [o \in OpIds |-> NoLimit]
    /\ expTracker = [o \in OpIds |-> NoTrack]
    /\ expExhausted = [o \in OpIds |-> FALSE]
    /\ qLast = "off"
    /\ qBefore = NoEntries

GuardIdle ==
    /\ isChecking = FALSE
    /\ loopRunning = FALSE
    /\ farmSubscribed = FALSE
    /\ gPc = [g \in FarmGoroutines |-> "none"]
    /\ isCheckingFriends = FALSE
    /\ friendLoopRunning = FALSE
    /\ fPc = [g \in FriendGoroutines |-> "none"]

NetIdle ==
    /\ connected = FALSE
    /\ wsOpen = FALSE
    /\ gid = 0
    /\ clientSeq = 0
    /\ seqLog = <<>>
    /\ pendingCallbacks = {}
    /\ chanBuf = [s \in SeqIds |-> "none"]
    /\ chanClosed = {}
    /\ delivered = [s \in SeqIds |-> 0]
    /\ mu = "free"
    /\ muCur = 0
    /\ cPc = [c \in Callers |-> "none"]
    /\ cSeq = [c \in Callers |-> 0]
    /\ missCount = 0
    /\ cRet = [c \in Callers |-> "none"]
    /\ stale = FALSE
    /\ rPc = "none"
    /\ rCb = 0
    /\ rResp = "none"
    /\ rLast = "none"
    /\ mPc = "none"
    /\ emits = 0
    /\ crashed = FALSE

CycleIdle ==
    /\ yPc = "none"
    /\ work = [k \in WorkKinds |-> FALSE]
    /\ carePc = [k \in Care |-> "off"]
    /\ careOk = [k \in Care |-> "none"]
    /\ careLocal = [k \in Care |-> <<>>]
    /\ actions = <<>>
    /\ harvested = FALSE
    /\ reported = <<>>

vars == <<phaseVars, analyzeVars, quotaVars, guardVars, netVars, cycleVars,
         eventsVars,
         visitVars,
         plantVars,
         tourVars,
         userVars>>

(***************************************************************************)
(* SpecPhase                                                               *)
(***************************************************************************)
notPhaseVars == <<analyzeVars, quotaVars, guardVars, netVars,
    cycleVars,
    eventsVars,
    visitVars,
    plantVars,
    tourVars,
    userVars>>

PhaseNext == RunGetCurrentPhase /\ UNCHANGED notPhaseVars

PhaseStart == PhaseInit /\ AnalyzeIdle /\ QuotaIdle /\ GuardIdle /\ NetIdle
    /\ CycleIdle
    /\ EventsIdle
    /\ VisitIdle
    /\ PlantIdle
    /\ TourIdle
    /\ UserIdle

SpecPhase == PhaseStart /\ [][PhaseNext]_vars

(***************************************************************************)
(* SpecAnalyze                                                             *)
(***************************************************************************)
notAnalyzeVars == <<phaseVars, quotaVars, guardVars, netVars,
    cycleVars,
    eventsVars,
    visitVars,
    plantVars,
    tourVars,
    userVars>>

AnalyzeNext == RunAnalyze /\ UNCHANGED notAnalyzeVars

AnalyzeStart == AnalyzeInit /\ PhaseIdle /\ QuotaIdle /\ GuardIdle /\ NetIdle
    /\ CycleIdle
    /\ EventsIdle
    /\ VisitIdle
    /\ PlantIdle
    /\ TourIdle
    /\ UserIdle

SpecAnalyze == AnalyzeStart /\ [][AnalyzeNext]_vars

(***************************************************************************)
(* SpecQuota                                                               *)
(***************************************************************************)
notQuotaVars == <<phaseVars, analyzeVars, guardVars, netVars,
    cycleVars,
    eventsVars,
    visitVars,
    plantVars,
    tourVars,
    userVars>>

\* a response carries one limit record, or one record per operation kind
LimitLists ==
    {<<l>> : l \in LimitRecords}
    \cup UNION {{<<l, [l EXCEPT !.Id = o]>> : o \in OpIds \ {l.Id}} :
                 l \in LimitRecords}

QuotaNext ==
    \/ NextDay /\ UNCHANGED notQuotaVars
    \/ checkDailyReset /\ UNCHANGED notQuotaVars
    \/ \E ls \in LimitLists :
          updateOperationLimits(ls) /\ UNCHANGED notQuotaVars
    \/ \E o \in OpIds : trackExpBefore(o) /\ UNCHANGED notQuotaVars

QuotaStart == QuotaInit /\ PhaseIdle /\ AnalyzeIdle /\ GuardIdle /\ NetIdle
    /\ CycleIdle
    /\ EventsIdle
    /\ VisitIdle
    /\ PlantIdle
    /\ TourIdle
    /\ UserIdle

SpecQuota == QuotaStart /\ [][QuotaNext]_vars

(***************************************************************************)
(* SpecGuard                                                               *)
(***************************************************************************)
notGuardVars == <<phaseVars, analyzeVars, quotaVars, netVars,
    cycleVars,
    eventsVars,
    visitVars,
    plantVars,
    tourVars,
    userVars>>

GuardNext ==
    \/ StartFarmCheckLoop /\ UNCHANGED notGuardVars
    \/ SpawnFarmCheckLoop /\ UNCHANGED notGuardVars
    \/ FarmLoopTop /\ UNCHANGED notGuardVars
    \/ FarmLoopAfter /\ UNCHANGED notGuardVars
    \/ \E h \in FarmHandlers : LandsChanged(h) /\ UNCHANGED notGuardVars
    \/ \E h \in FarmHandlers : HandlerCheck(h) /\ UNCHANGED notGuardVars
    \/ \E h \in FarmHandlers : HandlerReturn(h) /\ UNCHANGED notGuardVars
    \/ \E g \in FarmGoroutines : CheckFarmEnter(g) /\ UNCHANGED notGuardVars
    \/ \E g \in FarmGoroutines : CheckFarmSet(g) /\ UNCHANGED notGuardVars
    \/ \E g \in FarmGoroutines : CheckFarmBody(g) /\ UNCHANGED notGuardVars
    \/ \E g \in FarmGoroutines : CheckFarmDefer(g) /\ UNCHANGED notGuardVars
    \/ StopFarmCheckLoop /\ UNCHANGED notGuardVars
    \/ StartFriendCheckLoop /\ UNCHANGED notGuardVars
    \/ FriendTimerTop /\ UNCHANGED notGuardVars
    \/ FriendTimerWake /\ UNCHANGED notGuardVars
    \/ \E g \in FriendGoroutines : FriendReturn(g) /\ UNCHANGED notGuardVars
    \/ \E g \in FriendGoroutines :
          CheckAllFriendsEnter(g) /\ UNCHANGED notGuardVars
    \/ \E g \in FriendGoroutines :
          CheckAllFriendsSet(g) /\ UNCHANGED notGuardVars
    \/ \E g \in FriendGoroutines :
          CheckAllFriendsBody(g) /\ UNCHANGED notGuardVars
    \/ \E g \in FriendGoroutines :
          CheckAllFriendsDefer(g) /\ UNCHANGED notGuardVars
    \/ StopFriendCheckLoop /\ UNCHANGED notGuardVars

GuardStart == GuardInit /\ PhaseIdle /\ AnalyzeIdle /\ QuotaIdle /\ NetIdle
    /\ CycleIdle
    /\ EventsIdle
    /\ VisitIdle
    /\ PlantIdle
    /\ TourIdle
    /\ UserIdle

SpecGuard == GuardStart /\ [][GuardNext]_vars

(***************************************************************************)
(* SpecNet                                                                 *)
(***************************************************************************)
notNetVars == <<phaseVars, analyzeVars, quotaVars, guardVars,
    cycleVars,
    eventsVars,
    visitVars,
    plantVars,
    tourVars,
    userVars>>

ErrorCodes == {"ok", "err"}

NetNext ==
    \/ HbTick /\ UNCHANGED notNetVars
    \/ Elapse /\ UNCHANGED notNetVars
    \/ ForceBegin /\ UNCHANGED notNetVars
    \/ \E s \in SeqIds : ForceSend(s) /\ UNCHANGED notNetVars
    \/ ForceDelete /\ UNCHANGED notNetVars
    \/ ForceEnd /\ UNCHANGED notNetVars
    \/ \E c \in Callers : SendBegin(c) /\ UNCHANGED notNetVars
    \/ \E c \in Callers : EncodeMessage(c) /\ UNCHANGED notNetVars
    \/ \E c \in Callers : Register(c) /\ UNCHANGED notNetVars
    \/ \E c \in Callers : WriteMessage(c) /\ UNCHANGED notNetVars
    \/ \E c \in Callers : WriteFailed(c) /\ UNCHANGED notNetVars
    \/ \E c \in Callers : Receive(c) /\ UNCHANGED notNetVars
    \/ \E c \in Callers : Timeout(c) /\ UNCHANGED notNetVars
    \/ \E c \in Callers : TimeoutDelete(c) /\ UNCHANGED notNetVars
    \/ RecvTop /\ UNCHANGED notNetVars
    \/ RecvError /\ UNCHANGED notNetVars
    \/ RecvOther /\ UNCHANGED notNetVars
    \/ \E s \in SeqIds, e \in ErrorCodes :
          RecvResponse(s, e) /\ UNCHANGED notNetVars
    \/ RecvDeliver /\ UNCHANGED notNetVars
    \/ \E g \in Cleaners : CleanupBegin(g) /\ UNCHANGED notNetVars
    \/ \E g \in Cleaners, s \in SeqIds :
          CleanupClose(g, s) /\ UNCHANGED notNetVars
    \/ \E g \in Cleaners : CleanupDelete(g) /\ UNCHANGED notNetVars
    \/ \E g \in Cleaners : CleanupEmit(g) /\ UNCHANGED notNetVars
    \/ ExitSignal /\ UNCHANGED notNetVars

NetStart == NetInit /\ PhaseIdle /\ AnalyzeIdle /\ QuotaIdle /\ GuardIdle
    /\ CycleIdle
    /\ EventsIdle
    /\ VisitIdle
    /\ PlantIdle
    /\ TourIdle
    /\ UserIdle

SpecNet == NetStart /\ [][NetNext]_vars

(***************************************************************************)
(* Claims about getCurrentPhase (SpecPhase).                               *)
(***************************************************************************)
(* SpecNetLive: SpecNet with the scheduling the Go runtime gives.  A       *)
(* goroutine that can take a step takes one; a goroutine waiting for       *)
(* nm.mu gets it (sync.Mutex does not starve a waiter); ReadMessage on a   *)
(* closed socket returns its error; a call in progress runs to its return. *)
(* No fairness is asked of frames, of signals, of the heartbeat ticker or  *)
(* of the start of a request.                                              *)
(***************************************************************************)
CleanerStep(g) ==
    /\ \/ CleanupBegin(g)
       \/ \E s \in SeqIds : CleanupClose(g, s)
       \/ CleanupDelete(g)
       \/ CleanupEmit(g)
    /\ UNCHANGED notNetVars

RecvStep ==
    /\ \/ RecvTop
       \/ RecvError /\ ~wsOpen
       \/ RecvDeliver
    /\ UNCHANGED notNetVars

ForceStep ==
    /\ \/ ForceBegin
       \/ \E s \in SeqIds : ForceSend(s)
       \/ ForceDelete
       \/ ForceEnd
    /\ UNCHANGED notNetVars

\* a call in progress goes on: its goroutine is scheduled, it gets nm.mu,
\* and its select ends with the response or with the 10 s timer
CallStep(c) ==
    /\ \/ EncodeMessage(c)
       \/ Register(c)
       \/ WriteMessage(c)
       \/ WriteFailed(c)
       \/ Receive(c)
       \/ Timeout(c)
       \/ TimeoutDelete(c)
    /\ UNCHANGED notNetVars

NetFairness ==
    /\ \A g \in Cleaners : SF_vars(CleanerStep(g))
    /\ \A c \in Callers : SF_vars(CallStep(c))
    /\ SF_vars(RecvStep)
    /\ SF_vars(ForceStep)

SpecNetLive == NetStart /\ [][NetNext]_vars /\ NetFairness

(***************************************************************************)
(* SpecCycle                                                               *)
(***************************************************************************)
notCycleVars == <<phaseVars, analyzeVars, quotaVars, guardVars, netVars,
    eventsVars,
    visitVars,
    plantVars,
    tourVars,
    userVars>>

CycleNext ==
    \/ FetchLands /\ UNCHANGED notCycleVars
    \/ SpawnCare /\ UNCHANGED notCycleVars
    \/ \E k \in Care : CareCall(k) /\ UNCHANGED notCycleVars
    \/ \E k \in Care : CareAppendRead(k) /\ UNCHANGED notCycleVars
    \/ \E k \in Care : CareAppendWrite(k) /\ UNCHANGED notCycleVars
    \/ CareWait /\ UNCHANGED notCycleVars
    \/ HarvestStep /\ UNCHANGED notCycleVars
    \/ PlantStep /\ UNCHANGED notCycleVars
    \/ CycleClear /\ UNCHANGED notCycleVars
    \/ CycleSeed /\ UNCHANGED notCycleVars
    \/ CycleBuy /\ UNCHANGED notCycleVars
    \/ CyclePlant /\ UNCHANGED notCycleVars
    \/ CycleFertilize /\ UNCHANGED notCycleVars
    \/ LogStep /\ UNCHANGED notCycleVars
    \/ NextCycle /\ UNCHANGED notCycleVars

CycleStart ==
    CycleInit /\ PhaseIdle /\ AnalyzeIdle /\ QuotaIdle /\ GuardIdle /\ NetIdle
    /\ EventsIdle
    /\ VisitIdle
    /\ PlantIdle
    /\ TourIdle
    /\ UserIdle

SpecCycle == CycleStart /\ [][CycleNext]_vars

(***************************************************************************)
(* SpecEvents                                                              *)
(***************************************************************************)
notEventsVars == <<phaseVars, analyzeVars, quotaVars,
    guardVars, netVars, cycleVars,
    visitVars,
    plantVars,
    tourVars,
    userVars>>

EventsStart ==
    EventsInit
    /\ PhaseIdle
    /\ AnalyzeIdle
    /\ QuotaIdle
    /\ GuardIdle
    /\ NetIdle
    /\ CycleIdle
    /\ VisitIdle
    /\ PlantIdle
    /\ TourIdle
    /\ UserIdle

EventsNext ==
    \/ \E c \in Emitters : EmitCopy(c) /\ UNCHANGED notEventsVars
    \/ \E c \in Emitters : EmitGo(c) /\ UNCHANGED notEventsVars
    \/ \E c \in Emitters : EmitReturn(c) /\ UNCHANGED notEventsVars
    \/ FarmHandlerReturn /\ UNCHANGED notEventsVars
    \/ ExitHandler /\ UNCHANGED notEventsVars
    \/ LoginSleep /\ UNCHANGED notEventsVars
    \/ LoginSend /\ UNCHANGED notEventsVars
    \/ LoginWrite /\ UNCHANGED notEventsVars
    \/ LoginReceive /\ UNCHANGED notEventsVars
    \/ LoginTimeout /\ UNCHANGED notEventsVars
    \/ LoginCallback /\ UNCHANGED notEventsVars
    \/ LoginStartModules /\ UNCHANGED notEventsVars
    \/ LoginStartFriend /\ UNCHANGED notEventsVars
    \/ TaskStart /\ UNCHANGED notEventsVars
    \/ LoginOnDisconnected /\ UNCHANGED notEventsVars
    \/ \E kind \in ReplyKinds : LoopLoginReply(kind) /\ UNCHANGED notEventsVars
    \/ \E kind \in NotifyKinds : LoopNotify(kind) /\ UNCHANGED notEventsVars
    \/ \E why \in DropKinds : LoopDrop(why) /\ UNCHANGED notEventsVars
    \/ LoopReadError /\ UNCHANGED notEventsVars
    \/ LoopCleanup /\ UNCHANGED notEventsVars
    \/ OsSignal /\ UNCHANGED notEventsVars
    \/ MainWait /\ UNCHANGED notEventsVars
    \/ MainStop /\ UNCHANGED notEventsVars
    \/ MainCleanup /\ UNCHANGED notEventsVars

SpecEvents == EventsStart /\ [][EventsNext]_vars

(***************************************************************************)
(* SpecEventsLive: SpecEvents under the scheduling the Go runtime gives:   *)
(* the goroutine of sendLogin, the receive loop once a frame or an error   *)
(* is read, main once a signal is in sigChan and the goroutine of the      *)
(* disconnected handler go on; ReadMessage on a closed socket returns its  *)
(* error.  No fairness is asked of frames, of read errors on an open       *)
(* socket, of operating-system signals or of the landsChanged handler.     *)
(* The goroutine that starts the task loop goes on as well.                *)
(***************************************************************************)
EmitStep(c) == EmitCopy(c) \/ EmitGo(c) \/ EmitReturn(c)

LoginStep ==
    /\ \/ LoginSleep
       \/ LoginSend
       \/ LoginWrite
       \/ LoginReceive
       \/ LoginTimeout
       \/ LoginCallback
       \/ LoginStartModules
       \/ LoginStartFriend
       \/ TaskStart
       \/ LoginOnDisconnected
    /\ UNCHANGED notEventsVars

LoopStep ==
    /\ \/ EmitStep("loop")
       \/ LoopReadError /\ ~eConnected
       \/ LoopCleanup
    /\ UNCHANGED notEventsVars

MainStep ==
    /\ \/ MainWait
       \/ MainStop
       \/ MainCleanup
       \/ EmitStep("main")
    /\ UNCHANGED notEventsVars

EventsFairness ==
    /\ SF_vars(LoginStep)
    /\ SF_vars(LoopStep)
    /\ SF_vars(MainStep)
    /\ WF_vars(ExitHandler /\ UNCHANGED notEventsVars)

SpecEventsLive == EventsStart /\ [][EventsNext]_vars /\ EventsFairness

(***************************************************************************)
(* SpecVisit                                                               *)
(***************************************************************************)
notVisitVars == <<phaseVars, analyzeVars, guardVars, netVars, cycleVars,
    eventsVars,
    plantVars,
    tourVars,
    userVars>>

VisitStart ==
    VisitInit
    /\ QuotaInit
    /\ EventsIdle
    /\ PhaseIdle
    /\ AnalyzeIdle
    /\ GuardIdle
    /\ NetIdle
    /\ CycleIdle
    /\ PlantIdle
    /\ TourIdle
    /\ UserIdle

VisitNext ==
    \/ \E nSteal \in 0..MaxLands, nWater \in 0..MaxLands :
          EnterFriendFarm(nSteal, nWater) /\ UNCHANGED notVisitVars
    \/ StealGuard /\ UNCHANGED notVisitVars
    \/ StealLoopEnd /\ UNCHANGED notVisitVars
    \/ \E limits \in StealReplies :
          StealFromFriend(limits) /\ UNCHANGED notVisitVars
    \/ WaterGuard /\ UNCHANGED notVisitVars
    \/ WaterLoopEnd /\ UNCHANGED notVisitVars
    \/ \E ok \in BOOLEAN : HelpWaterLand(ok) /\ UNCHANGED notVisitVars

SpecVisit == VisitStart /\ [][VisitNext]_vars

(***************************************************************************)
(* SpecPlant                                                               *)
(***************************************************************************)
notPlantVars == <<phaseVars, analyzeVars, quotaVars, guardVars,
    netVars, cycleVars, eventsVars, visitVars,
    tourVars,
    userVars>>

PlantStart ==
    PlantInit
    /\ VisitIdle
    /\ EventsIdle
    /\ PhaseIdle
    /\ AnalyzeIdle
    /\ QuotaIdle
    /\ GuardIdle
    /\ NetIdle
    /\ CycleIdle
    /\ TourIdle
    /\ UserIdle

PlantNext ==
    \/ HarvestCall /\ UNCHANGED notPlantVars
    \/ RemoveDead /\ UNCHANGED notPlantVars
    \/ FindBestSeed /\ UNCHANGED notPlantVars
    \/ \E g \in 1..MaxGold : BasicNotifyGold(g) /\ UNCHANGED notPlantVars
    \/ BudgetTest /\ UNCHANGED notPlantVars
    \/ Shrink /\ UNCHANGED notPlantVars
    \/ BuyGoods /\ UNCHANGED notPlantVars
    \/ PlantSeeds /\ UNCHANGED notPlantVars
    \/ Fertilize /\ UNCHANGED notPlantVars

SpecPlant == PlantStart /\ [][PlantNext]_vars

(***************************************************************************)
(* SpecTour                                                                *)
(***************************************************************************)
notTourVars == <<phaseVars, analyzeVars, guardVars,
    netVars, cycleVars, eventsVars, plantVars,
    userVars>>

TourStart ==
    TourInit
    /\ PlantIdle
    /\ VisitInit
    /\ EventsIdle
    /\ PhaseIdle
    /\ AnalyzeIdle
    /\ QuotaInit
    /\ GuardIdle
    /\ NetIdle
    /\ CycleIdle
    /\ UserIdle

\* the limits of the replies in a cycle.  A Harvest reply carries none,
\* the steal record (ceiling 1, not reached or reached), or the steal
\* record and the water record (experience counter 0 or 1); a WaterLand
\* reply carries none or the water record.
StealLimit(times) ==
    [Id |-> OpSteal, DayTimes |-> times, DayTimesLt |-> 1, DayExpTimes |-> 0]
WaterLimit(exp) ==
    [Id |-> OpWaterLand, DayTimes |-> 0, DayTimesLt |-> 1,
     DayExpTimes |-> exp]
HarvestReplies ==
    {<<>>} \cup {<<StealLimit(t)>> : t \in {0, 1}}
    \cup {<<StealLimit(0), WaterLimit(e)>> : e \in {0, 1}}
WaterReplies == {<<>>} \cup {<<WaterLimit(e)>> : e \in {0, 1}}

TourNext ==
    \/ TourNextDay /\ UNCHANGED notTourVars
    \/ \E n \in 0..MaxFriends :
          CheckAllFriendsBegin(n) /\ UNCHANGED notTourVars
    \/ \E stealNum \in 0..1, dryNum \in 0..1 :
          FriendSummary(stealNum, dryNum) /\ UNCHANGED notTourVars
    \/ \E ok \in BOOLEAN, nSteal \in 0..MaxLands, nWater \in 0..MaxLands :
          CheckFriendFarmEnter(ok, nSteal, nWater) /\ UNCHANGED notTourVars
    \/ VisitStep /\ UNCHANGED notTourVars
    \/ \E ok \in BOOLEAN, limits \in HarvestReplies :
          VisitSteal(ok, limits) /\ UNCHANGED notTourVars
    \/ \E ok \in BOOLEAN, limits \in WaterReplies :
          VisitWater(ok, limits) /\ UNCHANGED notTourVars
    \/ \E ok \in BOOLEAN : LeaveFriendFarm(ok) /\ UNCHANGED notTourVars
    \/ TourAgain /\ UNCHANGED notTourVars

SpecTour == TourStart /\ [][TourNext]_vars

(***************************************************************************)
(* SpecUser                                                                *)
(***************************************************************************)
notUserVars == <<phaseVars, analyzeVars, quotaVars, guardVars, netVars,
    cycleVars, eventsVars, visitVars, plantVars, tourVars>>

UserStart ==
    UserInit
    /\ TourIdle
    /\ PlantIdle
    /\ VisitIdle
    /\ EventsIdle
    /\ PhaseIdle
    /\ AnalyzeIdle
    /\ QuotaIdle
    /\ GuardIdle
    /\ NetIdle
    /\ CycleIdle

UserNext ==
    \/ \E reply \in LoginReplies :
          UserLoginReply(reply) /\ UNCHANGED notUserVars
    \/ UserLoginReceive /\ UNCHANGED notUserVars
    \/ UserSetLock /\ UNCHANGED notUserVars
    \/ UserSetIdentity /\ UNCHANGED notUserVars
    \/ UserSetBasic /\ UNCHANGED notUserVars
    \/ UserLoginSuccess /\ UNCHANGED notUserVars
    \/ \E basic \in NotifyBasics :
          UserBasicNotify(basic) /\ UNCHANGED notUserVars
    \/ NotifyReadOld /\ UNCHANGED notUserVars
    \/ \E f \in BasicFields : NotifyUpdate(f) /\ UNCHANGED notUserVars
    \/ NotifyLog /\ UNCHANGED notUserVars
    \/ \E g \in UserReaders : ReadField(g) /\ UNCHANGED notUserVars

SpecUser == UserStart /\ [][UserNext]_vars

(***************************************************************************)
Count(list, id) == Cardinality({k \in 1..Len(list) : list[k] = id})

BeginSec(i) == ToTimeSec(phList[i].BeginTime)

\* the phases the scan accepts: begin time positive and not after now
Begun == {i \in 1..Len(phList) : BeginSec(i) > 0 /\ BeginSec(i) <= phNow}

PhaseResults == {phResult, phFriendResult}

\* C7 as stated: for every non-empty phase list and every now,
\* getCurrentPhase returns the phase with the greatest beginTime <= now,
\* the first phase when no phase has beginTime <= now, and never nil.
C7_GreatestBeginTime ==
    (phPc = "done" /\ Len(phList) > 0) =>
        \A r \in PhaseResults :
            /\ r \in 1..Len(phList)
            /\ IF \E j \in 1..Len(phList) : BeginSec(j) <= phNow
               THEN /\ BeginSec(r) <= phNow
                    /\ \A j \in 1..Len(phList) :
                          BeginSec(j) <= phNow => BeginSec(j) <= BeginSec(r)
               ELSE r = 1

\* begin times positive and ascending in list order
AscendingBegin ==
    /\ \A i \in 1..Len(phList) : BeginSec(i) > 0
    /\ \A i, j \in 1..Len(phList) : i < j => BeginSec(i) <= BeginSec(j)

\* C7 amended: getCurrentPhase returns the last phase in list order whose
\* begin time is positive and <= now, and the first phase when there is
\* none; it never returns nil for a non-empty list; when the begin times
\* are positive and ascending in list order, that phase is the one with
\* the greatest beginTime <= now.
C7_LastBegunPhase ==
    phPc = "done" =>
        \A r \in PhaseResults :
            IF Len(phList) = 0 THEN r = 0
            ELSE /\ r \in 1..Len(phList)
                 /\ Begun = {} => r = 1
                 /\ Begun # {} => (r \in Begun /\ \A j \in Begun : j <= r)
                 /\ (AscendingBegin /\ Begun # {}) =>
                       \A j \in 1..Len(phList) :
                          BeginSec(j) <= phNow => BeginSec(j) <= BeginSec(r)

\* the example of the claim: begin times [100, 200, 300], now = 250
C7_Witness ==
    /\ phPc = "done"
    /\ Len(phList) = 3
    /\ phList[1].BeginTime = 100
    /\ phList[2].BeginTime = 200
    /\ phList[3].BeginTime = 300
    /\ phNow = 250
    /\ phResult = 2
    /\ phFriendResult = 2

(***************************************************************************)
(* Claims about the analyzers (SpecAnalyze).                               *)
(***************************************************************************)
PartitionCount(st, id) ==
    Count(st.Empty, id) + Count(st.Dead, id)
    + Count(st.Harvestable, id) + Count(st.Growing, id)

AllListsCount(st, id) ==
    PartitionCount(st, id) + Count(st.NeedWater, id)
    + Count(st.NeedWeed, id) + Count(st.NeedBug, id)

\* C6: AnalyzeLands is total: every unlocked plot of the snapshot is in
\* exactly one of Empty, Dead, Harvestable, Growing, a locked plot is in
\* no list at all, and the lists hold nothing but plots of the snapshot.
C6_Partition ==
    aPc = "done" =>
        /\ \A i \in 1..Len(aLands) :
              IF aLands[i].Unlocked
              THEN PartitionCount(aStatus, aLands[i].Id) = 1
              ELSE AllListsCount(aStatus, aLands[i].Id) = 0
        /\ Len(aStatus.Empty) + Len(aStatus.Dead) + Len(aStatus.Harvestable)
             + Len(aStatus.Growing)
             = Cardinality({i \in 1..Len(aLands) : aLands[i].Unlocked})

C6_Witness ==
    /\ aPc = "done"
    /\ Len(aLands) = 2
    /\ ~aLands[1].Unlocked
    /\ aLands[2].Unlocked
    /\ aStatus.Harvestable = <<2>>

\* a plot the analyzers treat as growing: unlocked, planted, with a
\* current phase that is neither mature nor dead
IsGrowing(land) ==
    /\ land.Unlocked
    /\ land.HasPlant
    /\ Len(land.Phases) > 0
    /\ land.Phases[getCurrentPhase(land.Phases, aNow)].Phase
          \notin {PlantPhaseMature, PlantPhaseDead}

Reached(t) == ToTimeSec(t) > 0 /\ ToTimeSec(t) <= aNow

CurPhase(land) == land.Phases[getCurrentPhase(land.Phases, aNow)]

FlaggedOnce(list, id, need) ==
    /\ Count(list, id) <= 1
    /\ Count(list, id) = 1 <=> need

\* C8: for a growing plot, needs-water is flagged iff DryNum > 0 or the
\* current phase's dry time is set and reached; the same for weed and for
\* insect; the plot id is at most once in each need list.  Both analyzers.
C8_NeedFlags ==
    aPc = "done" =>
        \A i \in 1..Len(aLands) :
            IsGrowing(aLands[i]) =>
                LET land == aLands[i]
                    water == land.DryNum > 0 \/ Reached(CurPhase(land).DryTime)
                    weed == land.WeedOwners > 0
                            \/ Reached(CurPhase(land).WeedsTime)
                    bug == land.InsectOwners > 0
                           \/ Reached(CurPhase(land).InsectTime)
                IN  /\ FlaggedOnce(aStatus.NeedWater, land.Id, water)
                    /\ FlaggedOnce(aStatus.NeedWeed, land.Id, weed)
                    /\ FlaggedOnce(aStatus.NeedBug, land.Id, bug)
                    /\ FlaggedOnce(aFriendStatus.NeedWater, land.Id, water)
                    /\ FlaggedOnce(aFriendStatus.NeedWeed, land.Id, weed)
                    /\ FlaggedOnce(aFriendStatus.NeedBug, land.Id, bug)

\* a growing plot with DryNum > 0 whose dry time is reached as well,
\* flagged once by either analyzer
C8_Witness ==
    /\ aPc = "done"
    /\ \E i \in 1..Len(aLands) :
          /\ IsGrowing(aLands[i])
          /\ aLands[i].DryNum > 0
          /\ Reached(CurPhase(aLands[i]).DryTime)
          /\ aLands[i].WeedOwners = 0
          /\ Count(aStatus.NeedWater, aLands[i].Id) = 1
          /\ Count(aFriendStatus.NeedWater, aLands[i].Id) = 1
          /\ Count(aStatus.NeedWeed, aLands[i].Id) = 0

(***************************************************************************)
(* Claims about the daily reset (SpecQuota).                               *)
(***************************************************************************)
\* C9: when the local date differs from lastResetDate, checkDailyReset
\* clears every OperationLimit entry, every experience-tracker entry and
\* every exhaustion mark, and right afterwards isLimitReached is false and
\* canGetExp is true for every operation kind; it returns without a reset
\* only when the date is the one of the last reset.
C9_DailyReset ==
    /\ qLast = "reset" =>
          /\ lastResetDate = qToday
          /\ Entries = NoEntries
          /\ \A o \in OpIds : ~isLimitReached(o) /\ canGetExp(o)
    /\ qLast = "noreset" => lastResetDate = qToday

\* a reset that found entries of all three kinds, among them a reached
\* limit and an exhaustion mark
C9_Witness ==
    /\ qLast = "reset"
    /\ qBefore.limits > 0
    /\ qBefore.tracker > 0
    /\ qBefore.exhausted > 0

(***************************************************************************)
(* Claims about the reentrancy guards (SpecGuard).                         *)
(***************************************************************************)
CyclePcs == {"body", "early", "defer"}
FarmCycles == {g \in FarmGoroutines : gPc[g] \in CyclePcs}
FriendCycles == {g \in FriendGoroutines : fPc[g] \in CyclePcs}

AtMostOneFarmCycle == Cardinality(FarmCycles) <= 1
AtMostOneFriendCycle == Cardinality(FriendCycles) <= 1

\* C4: for each orchestrator at most one cycle is in progress at any time,
\* whichever way the timer loop, the cycle started at loop start and the
\* push handler interleave.
C4_AtMostOneCycle == AtMostOneFarmCycle /\ AtMostOneFriendCycle

(***************************************************************************)
(* Claims about the network session (SpecNet).                             *)
(***************************************************************************)
\* C1 as stated: a callback channel gets at most one result, and its entry
\* has left the pending table before the result is put into the channel.
C1_RemoveBeforeDeliver ==
    \A s \in SeqIds :
        /\ delivered[s] <= 1
        /\ delivered[s] = 1 => s \notin pendingCallbacks

\* C1: a callback channel gets at most one result, whichever way Response
\* frames (repeated or not), the caller's timeout, the watchdog and Cleanup
\* interleave.  handleMessage removes the entry under the lock before it
\* delivers; the watchdog and Cleanup deliver first and delete second, and
\* hold the lock from the delivery to the delete.
C1_SingleDelivery ==
    /\ \A s \in SeqIds :
          /\ delivered[s] <= 1
          /\ (delivered[s] = 1 /\ s \in pendingCallbacks) =>
                (mu # "free" /\ muCur = s)
    /\ rPc = "deliver" => (rCb \notin pendingCallbacks /\ delivered[rCb] = 0)

\* the watchdog has put its result into the channel of a request whose
\* caller still waits, and has not deleted the entry yet
C1_Witness ==
    \E c \in Callers :
        /\ cPc[c] = "wait"
        /\ chanBuf[cSeq[c]] = "forced"
        /\ cSeq[c] \in pendingCallbacks
        /\ mu = Heartbeat

\* C2: a Response whose clientSeq has no entry in the pending table leaves
\* the table, every callback channel and every waiting caller as they are.
C2_UnknownDropped ==
    [][\A s \in SeqIds, e \in ErrorCodes :
          (RecvResponse(s, e) /\ s \notin pendingCallbacks) =>
              UNCHANGED <<pendingCallbacks, chanVars, callerVars, rCb>>]_vars

\* a Response for a request that timed out was dropped while another
\* request waits for its own
C2_Witness ==
    /\ rLast = "late"
    /\ rPc = "top"
    /\ \E c \in Callers : cPc[c] = "wait" /\ cSeq[c] \in pendingCallbacks

\* C3: the sequence numbers of a session are strictly increasing in the
\* order they are handed out (so no two requests share one), also when
\* several goroutines send at the same time.
C3_StrictlyIncreasing ==
    /\ \A i, j \in 1..Len(seqLog) : i < j => seqLog[i] < seqLog[j]
    /\ \A c, d \in Callers :
          (c # d /\ cSeq[c] # 0 /\ cSeq[d] # 0) => cSeq[c] # cSeq[d]

\* two goroutines have a request in progress at the same time
C3_Witness ==
    /\ Len(seqLog) >= 2
    /\ \A c \in Callers : cSeq[c] # 0

\* C5: once the receive loop has met a read failure or main has begun its
\* shutdown, the session becomes not connected, "disconnected" has been
\* emitted exactly once, and the receive loop has ended (by its break or
\* with the process).
C5_DisconnectedOnce ==
    (rPc = "cleanup" \/ mPc = "cleanup") ~>
        (/\ ~connected
         /\ emits = 1
         /\ rPc = "done" \/ mPc = "exited")

\* "disconnected" is never emitted twice
EmitsAtMostOnce == emits <= 1

\* C12: when the write of a request frame fails, SendProtoMessage deletes
\* the entry it registered and returns the write error; it never goes on to
\* wait for a response or for the timeout.
C12_WriteFailure ==
    [][\A c \in Callers :
          (cPc[c] = "wfail" /\ cPc'[c] # "wfail") =>
              /\ cSeq[c] \notin pendingCallbacks'
              /\ cRet'[c] = "writeerr"
              /\ cPc'[c] \notin {"wait", "tmo"}]_vars

\* a write failed on the open socket and the call returned, while the
\* entry of another request is still pending
C12_Witness ==
    \E c \in Callers :
        /\ cRet[c] = "writeerr"
        /\ wsOpen
        /\ \E d \in Callers \ {c} : cSeq[d] \in pendingCallbacks

\* C13: a caller that receives a Response with a non-zero error code
\* returns that protocol error whether or not the body would decode, and
\* the call counts as failed (for the heartbeat: the miss counter and the
\* time of the last reply stay as they are).
C13_ProtocolError ==
    [][\A c \in Callers :
          (/\ cPc[c] = "wait"
           /\ chanBuf[cSeq[c]] = "err"
           /\ cPc'[c] \notin {"wait", "tmo"}
           /\ ~crashed') =>
              /\ cRet'[c] = "proto"
              /\ c = Heartbeat => UNCHANGED <<missCount, stale>>]_vars

\* the heartbeat got a protocol error after a miss, and the miss still
\* counts
C13_Witness ==
    /\ cRet[Heartbeat] = "proto"
    /\ missCount = 1
    /\ stale

HbTickStep == cPc[Heartbeat] = "tick" /\ cPc'[Heartbeat] # "tick"

\* C15: a tick more than 60 s after the last successful heartbeat, of a
\* watchdog that goes on (connected, gid not 0), adds one to the miss
\* counter, any other such tick leaves it; the watchdog force-resolves
\* only at the second such tick in a row, gives every pending request the
\* timeout error, and ends with an empty table and the counter at 0; a
\* successful heartbeat sets the counter to 0 and renews the 60 s.
C15_Watchdog ==
    /\ [](/\ missCount <= MissLimit
          /\ cPc[Heartbeat] \in {"lock", "force"} =>
                (stale /\ missCount = MissLimit))
    /\ [][/\ (HbTickStep /\ connected /\ gid # 0 /\ stale) =>
                missCount' = missCount + 1
          /\ (HbTickStep /\ connected /\ gid # 0 /\ ~stale) =>
                (missCount' = missCount /\ cPc'[Heartbeat] = "begin")
          /\ \A s \in SeqIds : ForceSend(s) => chanBuf'[s] = "forced"
          /\ (cPc[Heartbeat] = "force" /\ cPc'[Heartbeat] = "begin") =>
                (pendingCallbacks' = {} /\ missCount' = 0)
          /\ (cRet[Heartbeat] # "nil" /\ cRet'[Heartbeat] = "nil") =>
                (missCount' = 0 /\ ~stale')]_vars

\* the watchdog has force-resolved the request of a waiting caller and
\* reset its counter
C15_Witness ==
    /\ cPc[Heartbeat] = "begin"
    /\ missCount = 0
    /\ stale
    /\ pendingCallbacks = {}
    /\ \E c \in Callers : cPc[c] = "wait" /\ chanBuf[cSeq[c]] = "forced"

\* C18: a SendProtoMessage call never crashes its caller: the receive of
\* the select, whatever Cleanup, the watchdog or the receive loop did to
\* the callback channel, does not panic.
C18_CallerNeverCrashes ==
    [][\A c \in Callers : Receive(c) => ~crashed']_vars

\* C19: while the process runs, a request whose write failed is followed
\* by the closed session (connected false) with `disconnected` emitted
\* once.
C19_WriteFailureCloses ==
    (\E c \in Callers : cRet[c] = "writeerr")
        ~> (~Running \/ (~connected /\ emits = 1))

(***************************************************************************)
(* Claims about the event emitter and shutdown (SpecEvents).               *)
(***************************************************************************)
\* C14: Emit starts one goroutine for every handler of its copy of the
\* list and never waits: while a goroutine is inside Emit its next step is
\* possible whatever the handler goroutines started before are doing, and
\* with the emit over the receive loop can take the next frame.
C14_EmitNeverWaits ==
    /\ [](\A c \in Emitters :
            (Alive /\ Emitting(c)) => ENABLED EmitStep(c))
    /\ [](\A kind \in NotifyKinds :
            (Alive /\ loopPc = "read" /\ eConnected /\ frames < MaxFrames)
                => ENABLED LoopNotify(kind))
    /\ [][\A c \in Emitters :
            /\ EmitGo(c) =>
                 running'[emitList[c][emitIdx[c]]]
                     = running[emitList[c][emitIdx[c]]] + 1
            /\ EmitReturn(c) => emitIdx[c] = Len(emitList[c]) + 1]_vars

\* the receive loop reads again while the handler goroutines of two
\* earlier frames have not returned, and the disconnected handler has run
\* meanwhile
C14_Witness ==
    /\ running["farm"] >= 2
    /\ loopPc = "done"
    /\ sigChan = 1
    /\ running["exit"] = 0
    /\ Len(handlers["disconnected"]) = 1

\* C20: once the session is closed (connected false), main leaves its
\* wait on sigChan, unless the process has died of a panic.
C20_ClosedLeadsToShutdown ==
    (~eConnected) ~> (mainPc # "wait" \/ ePanic)

(***************************************************************************)
(* Claims about friend visits (SpecVisit).                                 *)
(***************************************************************************)
\* C16: an assistance kind becomes exhausted only after a help call of
\* that kind has succeeded since its 'before' value was written to
\* expTracker, and only on a reported counter that is not above it.
C16_ExhaustedOnlyAfterHelp ==
    [][\A o \in HelpOps :
          (~expExhausted[o] /\ expExhausted'[o]) =>
              /\ vHelped[o]
              /\ expTracker[o].Present
              /\ operationLimits'[o].DayExpTimes <= expTracker[o].Exp]_vars

\* a steal request was issued in this step
StealIssued == Len(vStolen') = Len(vStolen) + 1

\* C17: in a visit every steal request is for a plot not tried before in
\* this visit and is issued only while the recorded steal counter is below
\* its ceiling, as it stands after the previous steal response; the loop
\* ends only past the last stealable plot or on the reached ceiling.
C17_StealWithinQuota ==
    /\ [](/\ Len(vStolen) <= vSteal
          /\ \A i, j \in 1..Len(vStolen) : vStolen[i] = vStolen[j] => i = j)
    /\ [][/\ StealIssued =>
               /\ ~isLimitReached(OpSteal)
               /\ vStolen' = Append(vStolen, Len(vStolen) + 1)
          /\ (vPc = "stealLoop" /\ vPc' # "stealLoop") =>
               (Len(vStolen) = vSteal \/ isLimitReached(OpSteal))]_vars

\* the steal loop was cut short by the ceiling reached with the response
\* to the first request of the visit
C17_Witness ==
    /\ vPc = "water"
    /\ vSteal = 2
    /\ vStolen = <<1>>
    /\ isLimitReached(OpSteal)

(***************************************************************************)
(* Claims about the self-farm cycle (SpecCycle).                           *)
(***************************************************************************)
InList(list, x) == \E i \in 1..Len(list) : list[i] = x

\* every care call the analysis asked for was issued before the harvest
\* and planting steps, whatever the other care calls returned
CareAllIssued ==
    yPc \in {"harvest", "plant", "clear", "seed", "buy", "sow", "fertilize",
            "log"} =>
        \A k \in Care : work[k] => careOk[k] # "none"

\* the logged action list has an entry for every care call that succeeded
CareAllReported ==
    yPc = "end" => \A k \in Care : careOk[k] = "ok" => InList(reported, k)

\* C10: in a cycle whose weed, insect and water calls run concurrently, a
\* failure of one does not keep the others from being issued, the cycle goes
\* on to harvest and planting, and the reported action list has an entry for
\* every care action that succeeded.
C10_CareReported == CareAllIssued /\ CareAllReported

(***************************************************************************)
(* Claims about the harvest and planting of a cycle (SpecPlant)            *)
(***************************************************************************)
\* the positions in the request log of the requests of one operation
LogAt(op) == {i \in 1..Len(pLog) : pLog[i].op = op}

\* a finished cycle over one mature and one empty plot in which every call
\* succeeded and the gold paid for every plot
OneMatureOneEmptyDone ==
    /\ pPc = "end"
    /\ Len(pKinds) = 2
    /\ Len(PlotsOf(pKinds, "mature")) = 1
    /\ Len(PlotsOf(pKinds, "empty")) = 1
    /\ ~pFailed
    /\ ~pShort

\* C11: a cycle over one mature and one empty plot, every call succeeding
\* and the gold sufficing, sends its requests in the order harvest, seed
\* selection (the shop request), buy, plant, fertilize; at its end both
\* plots are planted with the same seed id and each plot has received a
\* fertilize request.  (The RemovePlant request the code sends for the
\* harvested plot between the harvest and the seed selection is outside
\* the statement.)
C11_HarvestBuyPlantFertilize ==
    OneMatureOneEmptyDone =>
        /\ Cardinality(LogAt("Harvest")) = 1
        /\ Cardinality(LogAt("ShopInfo")) = 1
        /\ Cardinality(LogAt("BuyGoods")) = 1
        /\ \A h \in LogAt("Harvest"), s \in LogAt("ShopInfo"),
              b \in LogAt("BuyGoods"), p \in LogAt("Plant"),
              f \in LogAt("Fertilize") :
                h < s /\ s < b /\ b < p /\ p < f
        /\ \A h \in LogAt("Harvest") :
              pLog[h].lands = PlotsOf(pKinds, "mature")
        /\ \A l \in 1..2 :
              /\ pSeedOf[l] = actualSeedId
              /\ actualSeedId \in SeedIds
              /\ Cardinality({p \in LogAt("Plant") :
                     pLog[p].lands = <<l>> /\ pLog[p].seed = actualSeedId})
                   = 1
              /\ Cardinality({f \in LogAt("Fertilize") :
                     pLog[f].lands = <<l>>}) = 1

C11_Witness ==
    /\ OneMatureOneEmptyDone
    /\ Len(pLog) > 0
    /\ pLog[Len(pLog)].op = "Fertilize"
    /\ planted = 2

\* the elements of a list
Elems(list) == {list[i] : i \in 1..Len(list)}

\* a request of the operation for the plot has succeeded
Succeeded(op, land) ==
    \E i \in LogAt(op) : pLog[i].ok /\ land \in Elems(pLog[i].lands)

\* a request of the operation for the plot has been sent
Requested(op, land) ==
    \E i \in LogAt(op) : land \in Elems(pLog[i].lands)

\* the position of a plot in landsToPlant (0 when it is not in the list)
PosOf(land) ==
    IF land \in Elems(landsToPlant)
    THEN CHOOSE i \in 1..Len(landsToPlant) : landsToPlant[i] = land
    ELSE 0

\* C28: when AutoPlantEmptyLands has built its candidate list (and goes on
\* to select the seed), a plot is a planting candidate exactly if it is
\* empty, or was harvested successfully in this cycle, or is dead and was
\* cleared successfully; so a plot whose harvest failed is no candidate.
C28_PlantingCandidates ==
    pPc = "seed" =>
        \A l \in 1..Len(pKinds) :
            l \in Elems(landsToPlant) <=>
                \/ pKinds[l] = "empty"
                \/ pKinds[l] = "mature" /\ Succeeded("Harvest", l)
                \/ pKinds[l] = "dead" /\ Succeeded("RemovePlant", l)

\* C29: a fertilize request is sent for a plot only if the plant request
\* for that plot succeeded in this cycle, and, no fertilize request having
\* failed, at the end of the planting every plot planted in this cycle has
\* got a fertilize request.
C29_FertilizeThePlanted ==
    /\ \A f \in LogAt("Fertilize") :
          \A l \in Elems(pLog[f].lands) : Succeeded("Plant", l)
    /\ (pPc = "end" /\ \A f \in LogAt("Fertilize") : pLog[f].ok) =>
          \A l \in 1..Len(pKinds) :
              Succeeded("Plant", l) => Requested("Fertilize", l)

\* after a failed plant request for a plot, the plant requests for all later
\* candidate plots are sent all the same (stated when PlantSeeds is over)
PlantGoesOn ==
    pPc \in {"fertilize", "end"} =>
        \A p \in LogAt("Plant") :
            ~pLog[p].ok =>
                \A j \in 1..Len(landsToPlant) :
                    j > PosOf(pLog[p].lands[1]) =>
                        Requested("Plant", landsToPlant[j])

\* C30 as stated: a failed plant request does not keep the later candidate
\* plots from their plant request, and a failed fertilize request does not
\* keep the later planted plots (landsToPlant[:planted]) from their
\* fertilize request.
C30_FailureDoesNotBlock ==
    /\ PlantGoesOn
    /\ pPc = "end" =>
          \A f \in LogAt("Fertilize") :
              ~pLog[f].ok =>
                  \A j \in 1..planted :
                      j > PosOf(pLog[f].lands[1]) =>
                          Requested("Fertilize", landsToPlant[j])

\* C30 amended: a failed plant request does not keep the later candidate
\* plots from their plant request; a failed fertilize request is the last
\* request of the cycle's planting: no later plot gets a fertilize request.
C30_PlantGoesOnFertilizeStops ==
    /\ PlantGoesOn
    /\ \A f \in LogAt("Fertilize") : ~pLog[f].ok =>
          /\ f = Len(pLog)
          /\ pPc = "end"

C30_Witness ==
    /\ pPc = "end"
    /\ planted = 2
    /\ \E f \in LogAt("Fertilize") :
          /\ ~pLog[f].ok
          /\ pLog[f].lands = <<landsToPlant[1]>>
    /\ ~Requested("Fertilize", landsToPlant[2])
    /\ \A p \in LogAt("Plant") : pLog[p].ok

(***************************************************************************)
(* Claims about the order of the steps of a self-farm cycle (SpecCycle)    *)
(***************************************************************************)
\* the positions of CheckFarm from the harvest to the log line
AfterJoin ==
    {"harvest", "plant", "clear", "seed", "buy", "sow", "fertilize", "log"}

\* the position a step of CheckFarm / AutoPlantEmptyLands is entered from
EnteredFrom(pc) ==
    CASE pc = "plant" -> "harvest"
      [] pc = "clear" -> "plant"
      [] pc = "seed" -> "clear"
      [] pc = "buy" -> "seed"
      [] pc = "sow" -> "buy"
      [] pc = "fertilize" -> "sow"
      [] OTHER -> "any"

\* C26: from the harvest (with its delay) on, every weed, insect and water
\* call the cycle started has returned, with success or with an error, and no
\* care goroutine moves any more; clear, seed selection, buy, plant and
\* fertilize are then each started only when the step before it has
\* returned.
C26_HarvestAfterCare ==
    /\ [](yPc \in AfterJoin =>
            \A k \in Care :
                /\ carePc[k] \in {"off", "done"}
                /\ work[k] => careOk[k] # "none")
    /\ [][(yPc \in AfterJoin) => (carePc' = carePc /\ careOk' = careOk)]_vars
    /\ [][(yPc' # yPc /\ EnteredFrom(yPc') # "any")
            => yPc = EnteredFrom(yPc')]_vars

C26_Witness ==
    /\ yPc = "fertilize"
    /\ harvested
    /\ \A k \in Care : work[k]
    /\ careOk["weed"] = "ok"
    /\ careOk["bug"] = "err"
    /\ careOk["water"] = "ok"

(***************************************************************************)
(* Claims about the notifications and their subscribers (SpecEvents)       *)
(***************************************************************************)
\* the receive loop is publishing the event: handleNotify has called Emit,
\* which has not read the handler list yet
Publishing(event) == emitKind["loop"] = event /\ emitIdx["loop"] = 0

\* the handler has been registered with On, for whatever event name
Subscribed(h) == \E e \in EventKinds : InList(handlers[e], h)

\* C25: a plot-state-changed notification published while the self-farm
\* and the friend-farm schedulers have subscribed their handlers leads to
\* the invocation of both handlers, and a task-state-changed notification
\* published while the task scheduler has subscribed leads to the
\* invocation of its handler (unless the process ends first).
C25_NotifyReachesHandlers ==
    /\ (Publishing("landsChanged") /\ Subscribed("farm"))
          ~> (running["farm"] > 0 \/ ~Alive)
    /\ (Publishing("landsChanged") /\ Subscribed("friend"))
          ~> (running["friend"] > 0 \/ ~Alive)
    /\ (Publishing("taskInfoNotify") /\ Subscribed("task"))
          ~> (running["task"] > 0 \/ ~Alive)

\* the part of C25 that is about the self-farm handler
FarmHandlerReached ==
    (Publishing("landsChanged") /\ Subscribed("farm"))
        ~> (running["farm"] > 0 \/ ~Alive)

(***************************************************************************)
(* Claims about the end of a cycle and the end of the loop (SpecGuard)     *)
(***************************************************************************)
\* C27: the in-progress flag of an orchestrator is false whenever none of
\* its cycles is in progress, every return of a cycle, the early ones
\* included, leaves the flag false, and a cycle that returned early (its
\* fetch failed or brought nothing) does nothing more than that: it sends
\* no action request.  So a cycle that failed leaves the next one free to
\* start.
C27_FlagReleased ==
    /\ [](FarmCycles = {} => ~isChecking)
    /\ [](FriendCycles = {} => ~isCheckingFriends)
    /\ [][\A g \in FarmGoroutines :
            (g \in FarmCycles /\ gPc'[g] \notin CyclePcs)
                => (gPc'[g] = "ret" /\ ~isChecking')]_vars
    /\ [][\A g \in FriendGoroutines :
            (g \in FriendCycles /\ fPc'[g] \notin CyclePcs)
                => (fPc'[g] = "ret" /\ ~isCheckingFriends')]_vars
    /\ [][\A g \in FarmGoroutines :
            (gPc[g] = "early" /\ gPc'[g] # "early") => gPc'[g] = "ret"]_vars
    /\ [][\A g \in FriendGoroutines :
            (fPc[g] = "early" /\ fPc'[g] # "early") => fPc'[g] = "ret"]_vars

C27_Witness ==
    /\ gPc[FarmLoop] = "ret"
    /\ ~isChecking
    /\ \E h \in FarmHandlers : gPc[h] = "early"
    /\ fPc[FriendFirst] = "exit"
    /\ fPc[FriendTimer] = "early"

\* StopFarmCheckLoop has returned: the loop was started and loopRunning is
\* false
FarmLoopStopped == ~loopRunning /\ gPc[FarmLoop] # "off"

\* the loop is stopped, its goroutine has exited and no handler goroutine
\* is running
FarmQuiet ==
    /\ FarmLoopStopped
    /\ gPc[FarmLoop] = "exit"
    /\ \A h \in FarmHandlers : gPc[h] = "idle"

\* C24: once StopFarmCheckLoop has returned the timer loop does not go on
\* to another cycle, and once the loop goroutine has exited and the handler
\* goroutines of earlier notifications are over, nothing runs any more: a
\* later plot-state-changed notification starts no handler and no cycle.
C24_StoppedStartsNothing ==
    /\ [][(FarmLoopStopped /\ gPc[FarmLoop] \in {"top", "ret"})
            => gPc'[FarmLoop] \in {gPc[FarmLoop], "exit"}]_vars
    /\ [][FarmQuiet => FarmQuiet']_vars

(***************************************************************************)
(* Claims about the pending table and the delivery (SpecNet)               *)
(***************************************************************************)
\* the positions of SendProtoMessage between the registration of the
\* callback and the return
CallPcs == {"write", "wfail", "wait", "tmo"}

\* a SendProtoMessage call that registered the sequence number is in
\* progress
InProgress(s) == \E c \in Callers : cSeq[c] = s /\ cPc[c] \in CallPcs

\* the holder of nm.mu (the watchdog or Cleanup) has resolved the entry and
\* deletes it before it releases the lock
BeingDeleted(s) == mu # "free" /\ muCur = s

\* C21: an entry of the pending table belongs to a SendProtoMessage call in
\* progress: once the call has returned, on whatever path, its sequence
\* number is absent, and the table is empty whenever no call is in progress.
C21_PendingOnlyWhileCalling ==
    Running =>
        /\ \A s \in pendingCallbacks : InProgress(s)
        /\ (\A c \in Callers : cPc[c] \notin CallPcs) => pendingCallbacks = {}

\* C21 as amended: an entry of the pending table belongs to a call in
\* progress or is the entry the watchdog has just resolved and deletes
\* next, under the lock it still holds.  To whoever holds nm.mu the
\* sequence number of a returned call is absent, and the table is empty
\* whenever no call is in progress and the lock is free.
C21_PendingWhileCallingOrLocked ==
    Running =>
        /\ \A s \in pendingCallbacks : InProgress(s) \/ BeingDeleted(s)
        /\ (mu = "free" /\ \A c \in Callers : cPc[c] \notin CallPcs)
              => pendingCallbacks = {}

C21_Witness ==
    /\ Running
    /\ mu = "free"
    /\ pendingCallbacks = {}
    /\ \A c \in Callers : cPc[c] \notin CallPcs
    /\ \E c \in Callers : cRet[c] = "forced"

\* C22: when handleMessage is about to deliver a response, the callback
\* channel has room and is open, so the send completes at once; this is so
\* also when the caller has taken its timeout branch after the entry was
\* removed, and the delivery never meets a channel Cleanup has closed.
C22_DeliveryNeverBlocks ==
    /\ [](Running /\ rPc = "deliver" =>
            /\ chanBuf[rCb] = "none"
            /\ rCb \notin chanClosed
            /\ ENABLED RecvDeliver)
    /\ [][RecvDeliver => ~crashed']_vars

C22_Witness ==
    /\ Running
    /\ rPc = "deliver"
    /\ \E c \in Callers : cSeq[c] = rCb /\ cPc[c] = "tmo"
    /\ ~connected

(***************************************************************************)
(* Claim about the frames handleMessage drops (SpecEvents)                 *)
(***************************************************************************)
\* C23: a frame that cannot be decoded, has no meta, or whose message type
\* is neither Response nor Notify is dropped: the session stays connected,
\* the pending callback is left as it was, no event is published (no Emit
\* starts and no handler is started), and the receive loop is back at
\* ReadMessage.
C23_DroppedFrame ==
    [][\A why \in DropKinds : LoopDrop(why) =>
          /\ eConnected' /\ eConnected
          /\ loginPending' = loginPending
          /\ loginChan' = loginChan
          /\ emitKind' = emitKind
          /\ emitList' = emitList
          /\ running' = running
          /\ loopPc' = "read"]_vars

\* a frame was dropped while the Login call was waiting for its response
C23_Witness ==
    /\ Alive
    /\ frames > 0
    /\ loopPc = "read"
    /\ eConnected
    /\ loginPending
    /\ emitKind["loop"] = "none"

(***************************************************************************)
(* Claim about the budget of the planting (SpecPlant)                      *)
(***************************************************************************)
\* the candidate plots before the budget test: the empty plots, then the
\* plots of the RemovePlant request when it succeeded
Candidates ==
    PlotsOf(pKinds, "empty") \o
    (IF \E i \in LogAt("RemovePlant") : pLog[i].ok
     THEN pLog[CHOOSE i \in LogAt("RemovePlant") : pLog[i].ok].lands
     ELSE <<>>)

Min(a, b) == IF a <= b THEN a ELSE b

\* the budget test has been passed or failed
BudgetDecided ==
    bestSeed.SeedId # "none" /\ pPc \notin {"buy", "short", "purchase"}

\* C31: the quantity q of the BuyGoods request is the number of candidate
\* plots, cut to floor(gold / price) when price times that number exceeds
\* the gold: q >= 1, q * price <= gold, the planting list is the first q
\* candidates and, the purchase having succeeded, exactly these q plots get
\* a plant request.  The step fails for want of gold, with no BuyGoods
\* request, only when the gold is less than the price of one seed, and it
\* never ends in a panic.
C31_BuyWithinBudget ==
    /\ pPc # "panic"
    /\ \A b \in LogAt("BuyGoods") :
          LET q == pLog[b].num
          IN  /\ q >= 1
              /\ q * bestSeed.Price <= pGold
              /\ q <= Len(Candidates)
              /\ landsToPlant = SubSeq(Candidates, 1, q)
              /\ ~pLog[b].ok => LogAt("Plant") = {}
              /\ (pLog[b].ok /\ pPc \in {"fertilize", "end"}) =>
                    /\ Cardinality(LogAt("Plant")) = q
                    /\ \A j \in 1..q : Requested("Plant", landsToPlant[j])
    /\ (BudgetDecided /\ LogAt("BuyGoods") = {}) =>
          /\ pGold < bestSeed.Price
          /\ LogAt("Plant") = {}
          /\ pPc = "end"

(***************************************************************************)
(* Claim about the need flags and the phase of the plot (SpecAnalyze)      *)
(***************************************************************************)
NeedLists == {"NeedWater", "NeedWeed", "NeedBug"}

\* a plot the friend-farm analyzer sees in a growing phase
FriendIsGrowing(land) ==
    /\ land.Unlocked
    /\ land.HasPlant
    /\ FriendGetCurrentPhase(land.Phases, aNow) # 0
    /\ land.Phases[FriendGetCurrentPhase(land.Phases, aNow)].Phase
          \notin {PlantPhaseMature, PlantPhaseDead}

SelfNeedsOnGrowing ==
    aPc = "done" =>
        \A i \in 1..Len(aLands), n \in NeedLists :
            containsInt64(aStatus[n], aLands[i].Id) => IsGrowing(aLands[i])

FriendNeedsOnGrowing ==
    aPc = "done" =>
        \A i \in 1..Len(aLands), n \in NeedLists :
            containsInt64(aFriendStatus[n], aLands[i].Id) =>
                FriendIsGrowing(aLands[i])

\* C32: in the result of AnalyzeLands and in the result of
\* AnalyzeFriendLands, every plot of a need list (water, weed, insect) is
\* a growing plot: a plot whose current phase is mature or dead is in none.
C32_NeedsOnlyOnGrowing == SelfNeedsOnGrowing /\ FriendNeedsOnGrowing

(***************************************************************************)
(* Claims about the friend cycle (SpecTour)                                *)
(***************************************************************************)
LastOf(log) == log[Len(log)]

\* the positions of the requests of an operation in tLog
SentAt(op) == {i \in 1..Len(tLog) : tLog[i].op = op}

\* a request of the operation is sent in this step
Sends(op) ==
    /\ Len(tLog') = Len(tLog) + 1
    /\ tLog'[Len(tLog')].op = op

\* C33: the requests since an Enter are all for the friend of that Enter;
\* after a failed Enter there is none (no action, no Leave); after a
\* successful Enter there is exactly one Leave, it comes after all actions
\* of the visit, and it has been sent when the loop goes on to the next
\* friend, so before the next Enter; whatever the Leave returns, the loop
\* goes on to the next friend at once.
C33_EnterLeave ==
    /\ [](tLog # <<>> =>
            /\ tLog[1].op = "Enter"
            /\ SentAt("Enter") = {1}
            /\ \A i \in 1..Len(tLog) : tLog[i].friend = tLog[1].friend
            /\ ~tEnterOk => Len(tLog) = 1
            /\ Cardinality(SentAt("Leave")) <= 1
            /\ SentAt("Leave") \subseteq {Len(tLog)}
            /\ tPc = "visit" => tEnterOk /\ SentAt("Leave") = {}
            /\ (tPc # "visit" /\ tEnterOk) => SentAt("Leave") = {Len(tLog)})
    /\ [][\A ok \in BOOLEAN :
            LeaveFriendFarm(ok) =>
                /\ tPc' = "pick"
                /\ tFriend' = tFriend + 1
                /\ UNCHANGED <<quotaVars, visitVars>>]_vars

\* the second friend is about to be entered after a visit of the first
\* with a steal and a water request and the Leave
C33_Witness ==
    /\ tPc = "enter"
    /\ tFriend = 2
    /\ tEnterOk
    /\ tLog[1].friend = 1
    /\ SentAt("Steal") # {}
    /\ SentAt("Water") # {}
    /\ LastOf(tLog).op = "Leave"

\* C34: in a visit no steal request is sent after an assistance request.
C34_StealFirst ==
    \A i, j \in 1..Len(tLog) :
        (tLog[i].op = "Water" /\ tLog[j].op = "Steal") => j < i

C34_Witness ==
    /\ tPc = "visit"
    /\ Cardinality(SentAt("Steal")) >= 2
    /\ SentAt("Water") # {}

\* C35: an exhaustion mark is removed only by the daily reset, and the
\* water loop is entered, and a water request sent, only in a visit whose
\* water block began while water was not marked exhausted.
C35_ExhaustedSkipsHelp ==
    /\ [][\A o \in HelpOps :
            (expExhausted[o] /\ ~expExhausted'[o]) =>
                /\ tPc = "start"
                /\ lastResetDate' # lastResetDate]_vars
    /\ [][(vPc' = "waterLoop" /\ vPc # "waterLoop") =>
            (vPc = "water" /\ ~expExhausted[OpWaterLand])]_vars
    /\ [][Sends("Water") => vPc = "waterLoop"]_vars
    /\ [][(vPc = "water" /\ expExhausted[OpWaterLand]) =>
            vPc' \in {"water", "idle"}]_vars

\* a visit with plots to water, water's ceiling not reached, in which the
\* water block was skipped because of the mark
C35_Witness ==
    /\ tPc = "visit"
    /\ vPc = "idle"
    /\ vWater > 0
    /\ expExhausted[OpWaterLand]
    /\ ~isLimitReached(OpWaterLand)
    /\ SentAt("Water") = {}
    /\ SentAt("Steal") # {}

\* the stored record of every operation kind the reply reports is the
\* reported record
Stored(limits) ==
    \A i \in 1..Len(limits) :
        operationLimits[limits[i].Id] =
            [Present |-> TRUE, DayTimes |-> limits[i].DayTimes,
             DayTimesLt |-> limits[i].DayTimesLt,
             DayExpTimes |-> limits[i].DayExpTimes]

StealRefreshes ==
    [][\A limits \in HarvestReplies :
          VisitSteal(TRUE, limits) => Stored(limits)']_vars

\* C36: after a successful steal response and after a successful water
\* response on a friend's farm, the stored record of each operation kind
\* the response reports equals the reported record.
C36_LimitsRefreshed ==
    /\ StealRefreshes
    /\ [][\A limits \in WaterReplies :
            VisitWater(TRUE, limits) => Stored(limits)']_vars

\* C37: no steal request is sent while the stored steal record, and no
\* water request while the stored water record, is one stored before the
\* latest change of the local date, also when the date changed in the
\* middle of the cycle.
C37_ResetBeforeAction ==
    [][/\ Sends("Steal") => OpSteal \notin tOld
       /\ Sends("Water") => OpWaterLand \notin tOld]_vars

(***************************************************************************)
(* Claims about UserState (SpecUser)                                       *)
(***************************************************************************)
\* C38: every access to a field of UserState, by the login handler, the
\* receive loop, the watchdog and the scheduler cycles, is made inside a
\* critical section of UserState's lock.
C38_AccessUnderLock == uAcc.held

\* C39: when the receive loop has handled the frames it has read, every
\* field for which a BasicNotify that arrived after the Login response
\* carried a positive value holds the latest such value, whatever the
\* login handler has done since.
C39_ArrivalOrder ==
    uLoopPc = "read" =>
        \A f \in BasicFields : uNewest[f] > 0 => userState[f] = uNewest[f]

(***************************************************************************)
(* Claims about the watchdog's end (SpecNet)                               *)
(***************************************************************************)
\* the session reports disconnected or the identity is invalid
SessionOver == ~connected \/ gid = 0

\* the watchdog's request goes out on the connection in this step
HeartbeatWritten ==
    cPc[Heartbeat] = "write" /\ cPc'[Heartbeat] = "wait"

====
